---------------------------- MODULE Spec2Model ----------------------------
(***************************************************************************)
(* FitWeek: the service wrappers (auth, workout) and the screen handlers   *)
(* that call them, over the remote Appwrite account and document store.    *)
(* Every await of a handler is one step; a remote call may succeed or      *)
(* fail.  The repository holds two revisions of several files; both are    *)
(* modelled, each under its own operation name.                            *)
(***************************************************************************)
EXTENDS Integers, Sequences, FiniteSets, TLC

VARIABLES
  sessions,     \* number of sessions the remote account service holds
  current,      \* the client holds a valid current session
  isLoggedIn,   \* RootNavigator state
  isLoading,    \* RootNavigator state
  frame,        \* the auth handler in flight (one await per step)
  build,        \* which revision of the navigator and of authService runs
  weekdays,          \* Weekday documents: [id, userId, order]
  workoutExercises,  \* WorkoutExercise documents: [id, weekdayId, exerciseId]
  exerciseSets,      \* ExerciseSet documents: [id, workoutExerciseId, setNumber]
  nextId,            \* ID.unique(): ids handed out so far, per collection
  calls,             \* the store-side handlers in flight, one frame per slot
  accounts,          \* users with an account on the remote service
  sessionUser,       \* whose credentials made the current session
  batches,           \* createInitialWeekdays calls started so far
  user,              \* WorkoutScreen state: the identity it fetched, or "none"
  loading,           \* WorkoutScreen state
  shown,             \* WorkoutScreen state `weekdays`: [id, exerciseCount] entries
  route,             \* the screen on top of the Workout stack and its params
  exercises,         \* AddExerciseScreen state: the library entries it fetched
  selectedExercise,  \* AddExerciseScreen state, or "none"
  rows,              \* AddExerciseScreen state `sets`: [id, reps, weight] rows
  submitting,        \* AddExerciseScreen state
  workout,             \* ExecuteWorkoutScreen param `exercises`: id -> set ids
  completedExercises,  \* ExecuteWorkoutScreen state
  completedSets,       \* ExecuteWorkoutScreen state: exercise id -> set ids
  weekdayDetails,   \* WeekdayDetailsScreen state: [exercises, loading]
  exercisesScreen,  \* ExercisesScreen state: [exercises, loading, searchText,
                    \*   selectedBodyPart, selectedCategory]
  handlers,         \* per slot, the screen handler awaiting the slot's call
                    \*   and the state its closure captured
  lastFetch         \* the remote store when WeekdayDetailsScreen last started
                    \*   a fetch, and whether a fetch of a list screen failed
                    \*   (history)

authVars == <<sessions, current, isLoggedIn, isLoading, frame, build>>

storeVars == <<weekdays, workoutExercises, exerciseSets, nextId, calls>>

screenVars ==
  <<accounts, sessionUser, batches, user, loading, shown, route, exercises,
    selectedExercise, rows, submitting>>

executeVars == <<workout, completedExercises, completedSets>>

listVars == <<weekdayDetails, exercisesScreen, handlers, lastFetch>>

vars == <<sessions, current, isLoggedIn, isLoading, frame, build,
          weekdays, workoutExercises, exerciseSets, nextId, calls,
          accounts, sessionUser, batches, user, loading, shown, route, exercises,
          selectedExercise, rows, submitting,
          workout, completedExercises, completedSets,
          weekdayDetails, exercisesScreen, handlers, lastFetch>>

\* ------------------------------------------------------------- bounds
MaxSessions == 2
\* documents ever created, per collection
MaxWorkoutExercises == 1
MaxSets == 2
\* the largest explicit set number a caller passes
MaxSetNumber == 1
\* createInitialWeekdays calls that ever created a document
MaxBatches == 2
\* rows of AddExerciseScreen, and the largest row id
MaxRows == 2
MaxRowId == 2
\* the largest row id where the rows may grow to the screen's own limit
MaxRowIdFull == 11

\* -------------------------------------------------- remote account API
\* account.get(): the identity when the client holds a session, 401 when
\* it holds none; any call may fail for another reason (network).
AccountGetResponses == IF current THEN {"user", "err"} ELSE {"401", "err"}

\* account.deleteSession('current')
DeleteSessionResponses == IF current THEN {"ok", "err"} ELSE {"401", "err"}

\* account.createEmailSession(email, password): refused for wrong
\* credentials; with a session already active the service either refuses
\* or adds a session, depending on its release.
CreateSessionResponses(credsOk) ==
  IF ~credsOk THEN {"401", "err"}
  ELSE IF current THEN {"ok", "409", "err"}
  ELSE {"ok", "err"}

Idle ==
  [op |-> "idle", pc |-> "idle", credsOk |-> FALSE, hadSession |-> FALSE,
   getOk |-> TRUE, creates |-> 0, resp |-> "-", ret |-> "-"]

NewFrame(op, pc) ==
  [Idle EXCEPT !.op = op, !.pc = pc, !.hadSession = current]

Free == frame.pc \in {"idle", "done"}

Return(f, value) == [f EXCEPT !.pc = "done", !.ret = value]

\* The repository holds two revisions of the navigator (src/app/index.jsx
\* with src/app/screens/SettingsScreen.jsx: "app"; src/unnamed/part_010 with
\* src/unnamed/part_003: "p10") and two of authService
\* (src/app/services/authService.js: "app"; src/unnamed/part_009: "p9").
\* The p10 navigator calls the account API directly.
Builds ==
  {[nav |-> "app", svc |-> "app"], [nav |-> "app", svc |-> "p9"],
   [nav |-> "p10", svc |-> "p9"]}

\* ---------------------------------------------------- remote effects
\* The effect of one deleteSession call on the remote service.
DeleteSessionEffect(resp) ==
  /\ sessions' = (IF resp = "ok" THEN sessions - 1 ELSE sessions)
  /\ current' = (IF resp = "ok" THEN FALSE ELSE current)

\* The effect of one createEmailSession call on the remote service.
CreateSessionEffect(resp) ==
  /\ sessions' = (IF resp = "ok" THEN sessions + 1 ELSE sessions)
  /\ current' = (IF resp = "ok" THEN TRUE ELSE current)

\* The current session ends on the server side (expiry, revocation).
SessionExpires ==
  /\ current
  /\ current' = FALSE
  /\ sessions' = sessions - 1
  /\ UNCHANGED <<isLoggedIn, isLoading, frame, build>>
  /\ UNCHANGED storeVars
  /\ UNCHANGED executeVars
  /\ UNCHANGED listVars
  /\ UNCHANGED screenVars

\* ------------------------------------------------- authService.logout
\* What authService.logout makes of the response of deleteSession.
LogoutResult_p9(resp) ==
  IF resp = "ok" THEN "ok"
  ELSE IF resp = "401" THEN "true"
  ELSE "throw"

LogoutResult_app(resp) ==
  IF resp = "ok" THEN "true" ELSE "throw"

LogoutResult(svc, resp) ==
  IF svc = "p9" THEN LogoutResult_p9(resp) ELSE LogoutResult_app(resp)

\* authService.logout called on its own.
logout_start ==
  /\ Free
  /\ frame' = NewFrame("logout", "deleteSession")
  /\ UNCHANGED <<sessions, current, isLoggedIn, isLoading, build>>
  /\ UNCHANGED storeVars
  /\ UNCHANGED executeVars
  /\ UNCHANGED listVars
  /\ UNCHANGED screenVars

logout_deleteSession ==
  /\ frame.op = "logout" /\ frame.pc = "deleteSession"
  /\ \E resp \in DeleteSessionResponses :
       /\ DeleteSessionEffect(resp)
       /\ frame' = Return([frame EXCEPT !.resp = resp],
                          LogoutResult(build.svc, resp))
  /\ UNCHANGED <<isLoggedIn, isLoading, build>>
  /\ UNCHANGED storeVars
  /\ UNCHANGED executeVars
  /\ UNCHANGED listVars
  /\ UNCHANGED screenVars

\* -------------------------------------------------- authService.login
\* src/unnamed/part_009 asks hasActiveSession first;
\* src/app/services/authService.js creates the session at once.
login_start ==
  /\ Free
  /\ \E credsOk \in BOOLEAN :
       frame' = [NewFrame("login",
                          IF build.svc = "p9" THEN "hasActiveSession"
                          ELSE "createEmailSession")
                 EXCEPT !.credsOk = credsOk]
  /\ UNCHANGED <<sessions, current, isLoggedIn, isLoading, build>>
  /\ UNCHANGED storeVars
  /\ UNCHANGED executeVars
  /\ UNCHANGED listVars
  /\ UNCHANGED screenVars

\* hasActiveSession: account.get() succeeded, or false on any error.
login_hasActiveSession ==
  /\ frame.op = "login" /\ frame.pc = "hasActiveSession"
  /\ \E resp \in AccountGetResponses :
       frame' = [frame EXCEPT
                   !.getOk = (resp = "user"),
                   !.pc = IF resp = "user" THEN "get" ELSE "createEmailSession"]
  /\ UNCHANGED <<sessions, current, isLoggedIn, isLoading, build>>
  /\ UNCHANGED storeVars
  /\ UNCHANGED executeVars
  /\ UNCHANGED listVars
  /\ UNCHANGED screenVars

\* return await account.get()
login_get ==
  /\ frame.op = "login" /\ frame.pc = "get"
  /\ \E resp \in AccountGetResponses :
       frame' = Return([frame EXCEPT !.getOk = frame.getOk /\ resp = "user"],
                       IF resp = "user" THEN "user" ELSE "throw")
  /\ UNCHANGED <<sessions, current, isLoggedIn, isLoading, build>>
  /\ UNCHANGED storeVars
  /\ UNCHANGED executeVars
  /\ UNCHANGED listVars
  /\ UNCHANGED screenVars

login_createEmailSession ==
  /\ frame.op = "login" /\ frame.pc = "createEmailSession"
  /\ \E resp \in CreateSessionResponses(frame.credsOk) :
       /\ resp = "ok" => sessions < MaxSessions
       /\ CreateSessionEffect(resp)
       /\ LET f == [frame EXCEPT !.creates = frame.creates + 1] IN
          frame' = IF resp # "ok" THEN Return(f, "throw")
                   ELSE IF build.svc = "p9" THEN Return(f, "session")
                   ELSE [f EXCEPT !.pc = "get"]
  /\ UNCHANGED <<isLoggedIn, isLoading, build>>
  /\ UNCHANGED storeVars
  /\ UNCHANGED executeVars
  /\ UNCHANGED listVars
  /\ UNCHANGED screenVars

\* ----------------------------------------- authService.getCurrentUser
\* Both revisions: the identity, or null on any error.
getCurrentUser_always(resp) == "user"

getCurrentUser(resp) == IF resp = "user" THEN "user" ELSE "null"


\* ------------------------------------------------------ RootNavigator
\* checkAuthStatus, run once on mount (useEffect) and after a p10 login.
\* app: authService.getCurrentUser(); p10: account.get() in a try/catch.
checkAuthStatus_get_noFinally ==
  /\ frame.op = "checkAuthStatus" /\ frame.pc = "get"
  /\ \E resp \in AccountGetResponses :
       /\ isLoggedIn' = (getCurrentUser(resp) = "user")
       /\ frame' = Return(frame, IF resp = "user" THEN "true" ELSE "false")
       /\ isLoading' = (IF resp = "user" THEN FALSE ELSE isLoading)
  /\ UNCHANGED <<sessions, current, build>>
  /\ UNCHANGED storeVars
  /\ UNCHANGED executeVars
  /\ UNCHANGED listVars
  /\ UNCHANGED screenVars

checkAuthStatus_get ==
  /\ frame.op = "checkAuthStatus" /\ frame.pc = "get"
  /\ \E resp \in AccountGetResponses :
       /\ isLoggedIn' = (getCurrentUser(resp) = "user")
       /\ frame' = Return(frame, IF resp = "user" THEN "true" ELSE "false")
  /\ isLoading' = FALSE
  /\ UNCHANGED <<sessions, current, build>>
  /\ UNCHANGED storeVars
  /\ UNCHANGED executeVars
  /\ UNCHANGED listVars
  /\ UNCHANGED screenVars

\* What RootNavigator renders: the spinner while isLoading, else the tab
\* stack when isLoggedIn, else the auth stack.
Rendered ==
  IF isLoading THEN "loading" ELSE IF isLoggedIn THEN "AppTabs" ELSE "Auth"

\* The login of the auth context, called by LoginScreen (auth stack shown).
handleLogin_start ==
  /\ Free /\ ~isLoading /\ ~isLoggedIn
  /\ \E credsOk \in BOOLEAN :
       frame' = [NewFrame("handleLogin",
                          IF build.nav = "app" THEN "getCurrentUser"
                          ELSE "deleteSession")
                 EXCEPT !.credsOk = credsOk]
  /\ UNCHANGED <<sessions, current, isLoggedIn, isLoading, build>>
  /\ UNCHANGED storeVars
  /\ UNCHANGED executeVars
  /\ UNCHANGED listVars
  /\ UNCHANGED screenVars

\* What handleLogin of src/app/index.jsx returns when LoginScreen called it
\* with credentials that are right (credsOk) or wrong and the lookup
\* answered resp: the function takes no arguments.
LoginResult_checked(credsOk, resp) ==
  IF credsOk /\ getCurrentUser(resp) = "user" THEN "true" ELSE "false"

LoginResult(credsOk, resp) ==
  IF getCurrentUser(resp) = "user" THEN "true" ELSE "false"

\* src/app/index.jsx: only asks for the current user.
handleLogin_getCurrentUser ==
  /\ frame.op = "handleLogin" /\ frame.pc = "getCurrentUser"
  /\ \E resp \in AccountGetResponses :
       /\ isLoggedIn' = (IF LoginResult(frame.credsOk, resp) = "true" THEN TRUE
                         ELSE isLoggedIn)
       /\ frame' = Return(frame, LoginResult(frame.credsOk, resp))
  /\ UNCHANGED <<sessions, current, isLoading, build>>
  /\ UNCHANGED storeVars
  /\ UNCHANGED executeVars
  /\ UNCHANGED listVars
  /\ UNCHANGED screenVars

\* src/unnamed/part_010: drops any session first, failure ignored.
handleLogin_deleteSession ==
  /\ frame.op = "handleLogin" /\ frame.pc = "deleteSession"
  /\ \E resp \in DeleteSessionResponses :
       /\ DeleteSessionEffect(resp)
       /\ frame' = [frame EXCEPT !.pc = "createEmailSession"]
  /\ UNCHANGED <<isLoggedIn, isLoading, build>>
  /\ UNCHANGED storeVars
  /\ UNCHANGED executeVars
  /\ UNCHANGED listVars
  /\ UNCHANGED screenVars

handleLogin_createEmailSession ==
  /\ frame.op = "handleLogin" /\ frame.pc = "createEmailSession"
  /\ \E resp \in CreateSessionResponses(frame.credsOk) :
       /\ resp = "ok" => sessions < MaxSessions
       /\ CreateSessionEffect(resp)
       /\ LET f == [frame EXCEPT !.creates = frame.creates + 1] IN
          frame' = IF resp = "ok" THEN [f EXCEPT !.pc = "checkAuthStatus"]
                   ELSE Return(f, "false")
  /\ UNCHANGED <<isLoggedIn, isLoading, build>>
  /\ UNCHANGED storeVars
  /\ UNCHANGED executeVars
  /\ UNCHANGED listVars
  /\ UNCHANGED screenVars

\* await checkAuthStatus(); return true
handleLogin_checkAuthStatus ==
  /\ frame.op = "handleLogin" /\ frame.pc = "checkAuthStatus"
  /\ \E resp \in AccountGetResponses :
       isLoggedIn' = (resp = "user")
  /\ isLoading' = FALSE
  /\ frame' = Return(frame, "true")
  /\ UNCHANGED <<sessions, current, build>>
  /\ UNCHANGED storeVars
  /\ UNCHANGED executeVars
  /\ UNCHANGED listVars
  /\ UNCHANGED screenVars

\* ------------------------------------- SettingsScreen.handleLogout
\* The settings tab exists only in the authenticated stack.
\* src/app/screens/SettingsScreen.jsx calls authService.logout itself and
\* then the navigator's logout; src/unnamed/part_003 only the latter.
handleLogout_start ==
  /\ Free /\ ~isLoading /\ isLoggedIn
  /\ frame' = NewFrame("handleLogout",
                       IF build.nav = "app" THEN "settings_logout"
                       ELSE "root_deleteSession")
  /\ UNCHANGED <<sessions, current, isLoggedIn, isLoading, build>>
  /\ UNCHANGED storeVars
  /\ UNCHANGED executeVars
  /\ UNCHANGED listVars
  /\ UNCHANGED screenVars

\* SettingsScreen.jsx: await authService.logout(), any error swallowed.
handleLogout_settings_logout ==
  /\ frame.op = "handleLogout" /\ frame.pc = "settings_logout"
  /\ \E resp \in DeleteSessionResponses :
       /\ DeleteSessionEffect(resp)
       /\ frame' = [frame EXCEPT !.pc = "root_logout", !.resp = resp]
  /\ UNCHANGED <<isLoggedIn, isLoading, build>>
  /\ UNCHANGED storeVars
  /\ UNCHANGED executeVars
  /\ UNCHANGED listVars
  /\ UNCHANGED screenVars

\* What the navigator's handleLogout does with isLoggedIn once its remote
\* call has answered.  src/app/index.jsx swallows whatever
\* authService.logout throws and always clears the flag.
AfterLogout_app(result) == FALSE

\* src/unnamed/part_010 clears the flag only when deleteSession succeeded.
AfterLogout_p10(resp) == IF resp = "ok" THEN FALSE ELSE isLoggedIn

\* index.jsx handleLogout: await authService.logout() in its own try.
handleLogout_root_logout ==
  /\ frame.op = "handleLogout" /\ frame.pc = "root_logout"
  /\ \E resp \in DeleteSessionResponses :
       /\ DeleteSessionEffect(resp)
       /\ isLoggedIn' = AfterLogout_app(LogoutResult(build.svc, resp))
       /\ frame' = Return([frame EXCEPT !.resp = resp], "true")
  /\ UNCHANGED <<isLoading, build>>
  /\ UNCHANGED storeVars
  /\ UNCHANGED executeVars
  /\ UNCHANGED listVars
  /\ UNCHANGED screenVars

\* part_010 handleLogout: await account.deleteSession('current').
handleLogout_root_deleteSession ==
  /\ frame.op = "handleLogout" /\ frame.pc = "root_deleteSession"
  /\ \E resp \in DeleteSessionResponses :
       /\ DeleteSessionEffect(resp)
       /\ isLoggedIn' = AfterLogout_p10(resp)
       /\ frame' = Return([frame EXCEPT !.resp = resp],
                          IF resp = "ok" THEN "true" ELSE "false")
  /\ UNCHANGED <<isLoading, build>>
  /\ UNCHANGED storeVars
  /\ UNCHANGED executeVars
  /\ UNCHANGED listVars
  /\ UNCHANGED screenVars

\* ===================================================== workoutService
\* The document store.  A document id is a number drawn by ID.unique(),
\* never handed out twice.  reps, weight, dayName and description are
\* payload that no operation branches on; they are left out.
WEEKDAYS_PER_USER == 7

Slots == {"a", "b"}

Users == {"u1", "u2"}

\* the exercise library, read-only for the app
Exercises == {"e1", "e2"}

\* A remote call on the store succeeds or fails; a get, update or delete of
\* a document that is not there can only fail.
Responses == {"ok", "err"}

DocResponses(exists) == IF exists THEN {"ok", "err"} ELSE {"err"}

CallIdle ==
  [op |-> "idle", pc |-> "idle", arg |-> 0, num |-> 0, todo |-> <<>>,
   log |-> <<>>, auto |-> FALSE, failed |-> FALSE, out |-> <<>>, newId |-> 0,
   phase |-> "-", exerciseId |-> "-", seen |-> {}, caught |-> {},
   ret |-> "-"]

NewCall(op, pc, arg) == [CallIdle EXCEPT !.op = op, !.pc = pc, !.arg = arg]

CallFree(p) == calls[p].pc \in {"idle", "done"}

At(p, op, pc) == calls[p].op = op /\ calls[p].pc = pc

Finish(f, value) == [f EXCEPT !.pc = "done", !.ret = value]

Logged(f, what) == [f EXCEPT !.log = Append(f.log, what)]

Max(S) == CHOOSE x \in S : \A y \in S : y <= x

\* The elements of a finite set of numbers, ascending.
RECURSIVE Ascending(_)
Ascending(S) ==
  IF S = {} THEN <<>>
  ELSE LET m == CHOOSE x \in S : \A y \in S : x <= y
       IN <<m>> \o Ascending(S \ {m})

WorkoutExerciseIds == {w.id : w \in workoutExercises}

SetsOf(workoutExerciseId) ==
  {s \in exerciseSets : s.workoutExerciseId = workoutExerciseId}

\* the weekdays of the first user, seeded at registration
SeedWeekdays ==
  {[id |-> k, userId |-> "u1", order |-> k] : k \in 1..WEEKDAYS_PER_USER}

StoreInit ==
  /\ weekdays = SeedWeekdays
  /\ workoutExercises = {}
  /\ exerciseSets = {}
  /\ nextId = [weekday |-> WEEKDAYS_PER_USER + 1, workoutExercise |-> 1,
               exerciseSet |-> 1]
  /\ calls = [p \in Slots |-> CallIdle]

\* ExecuteWorkoutScreen is not mounted: useState([]) and useState({}).
ExecuteInit ==
  /\ workout = <<>>
  /\ completedExercises = <<>>
  /\ completedSets = <<>>

\* No screen handler awaits the slot's call.
HandlerIdle == [op |-> "idle", arg |-> 0, closure |-> <<>>]

\* WeekdayDetailsScreen and ExercisesScreen are not mounted: their useState
\* initial values.
ListInit ==
  /\ weekdayDetails = [exercises |-> <<>>, loading |-> TRUE]
  /\ exercisesScreen = [exercises |-> <<>>, loading |-> TRUE, searchText |-> <<>>,
                        selectedBodyPart |-> "All Body Part",
                        selectedCategory |-> "All Category"]
  /\ handlers = [p \in Slots |-> HandlerIdle]
  /\ lastFetch = [workoutExercises |-> {}, failed |-> FALSE]

\* AddExerciseScreen starts with one empty row.
InitialRows == <<[id |-> 1, reps |-> FALSE, weight |-> FALSE]>>

WorkoutHome == [screen |-> "WorkoutHome", weekdayId |-> 0]

\* AddExerciseScreen: exercises = [], loading = true until the fetch ends.
NotFetched == [loading |-> TRUE, list |-> {}]

\* The screens of a signed-in first user, WorkoutScreen not yet loaded.
ScreenInit ==
  /\ accounts = {"u1"}
  /\ sessionUser = "u1"
  /\ batches = 1
  /\ user = "none"
  /\ loading = TRUE
  /\ shown = <<>>
  /\ route = WorkoutHome
  /\ exercises = NotFetched
  /\ selectedExercise = "none"
  /\ rows = InitialRows
  /\ submitting = FALSE
  /\ ExecuteInit
  /\ ListInit

\* --------------------------------------------- addExerciseToWeekday
\* One createDocument; the error is rethrown.
addExerciseToWeekday(p, weekdayId, exerciseId) ==
  /\ CallFree(p)
  /\ nextId.workoutExercise <= MaxWorkoutExercises
  /\ \E resp \in Responses :
       LET f == Logged(NewCall("addExerciseToWeekday", "createDocument", weekdayId),
                       "createDocument")
           id == nextId.workoutExercise
       IN IF resp = "ok"
          THEN /\ workoutExercises' = workoutExercises \cup
                    {[id |-> id, weekdayId |-> weekdayId, exerciseId |-> exerciseId]}
               /\ nextId' = [nextId EXCEPT !.workoutExercise = id + 1]
               /\ calls' = [calls EXCEPT ![p] = Finish([f EXCEPT !.newId = id], "created")]
          ELSE /\ calls' = [calls EXCEPT ![p] = Finish(f, "throw")]
               /\ UNCHANGED <<workoutExercises, nextId>>
  /\ UNCHANGED <<weekdays, exerciseSets>>
  /\ UNCHANGED authVars
  /\ UNCHANGED executeVars
  /\ UNCHANGED listVars
  /\ UNCHANGED screenVars

\* ------------------------------------------------- addSetToExercise
\* setNumber = null is the default; !setNumber is also true of 0.
addSetToExercise_start(p, workoutExerciseId, setNumber) ==
  /\ CallFree(p)
  /\ nextId.exerciseSet <= MaxSets
  /\ calls' = [calls EXCEPT ![p] =
       [NewCall("addSetToExercise",
                IF setNumber = 0 THEN "listDocuments" ELSE "createDocument",
                workoutExerciseId)
        EXCEPT !.num = setNumber, !.auto = (setNumber = 0)]]
  /\ UNCHANGED <<weekdays, workoutExercises, exerciseSets, nextId>>
  /\ UNCHANGED authVars
  /\ UNCHANGED executeVars
  /\ UNCHANGED listVars
  /\ UNCHANGED screenVars

\* The set number chosen from the answer to
\* [equal(workoutExerciseId), orderDesc(setNumber), limit(1)].
NextSetNumber(resp, existing) ==
  IF resp = "ok"
  THEN IF existing # {} THEN Max({s.setNumber : s \in existing}) + 1 ELSE 1
  ELSE 1

addSetToExercise_listDocuments(p) ==
  /\ At(p, "addSetToExercise", "listDocuments")
  /\ \E resp \in Responses :
       calls' = [calls EXCEPT ![p] =
         [Logged(calls[p], "listDocuments") EXCEPT
            !.pc = "createDocument",
            !.failed = (resp # "ok"),
            !.seen = (IF resp = "ok"
                      THEN {s.id : s \in SetsOf(calls[p].arg)} ELSE {}),
            !.num = NextSetNumber(resp, SetsOf(calls[p].arg))]]
  /\ UNCHANGED <<weekdays, workoutExercises, exerciseSets, nextId>>
  /\ UNCHANGED authVars
  /\ UNCHANGED executeVars
  /\ UNCHANGED listVars
  /\ UNCHANGED screenVars

\* The number createDocument stores is the one held since before the
\* await; a store rejecting a number already taken would give another.
SetNumberWritten_unique(num, existing) ==
  IF \E s \in existing : s.setNumber = num
  THEN Max({s.setNumber : s \in existing}) + 1
  ELSE num

SetNumberWritten(num, existing) == num

addSetToExercise_createDocument(p) ==
  /\ At(p, "addSetToExercise", "createDocument")
  /\ \E resp \in Responses :
       LET f == Logged(calls[p], "createDocument")
           id == nextId.exerciseSet
       IN IF resp = "ok"
          THEN /\ exerciseSets' = exerciseSets \cup
                    {[id |-> id, workoutExerciseId |-> f.arg,
                      setNumber |-> SetNumberWritten(f.num, SetsOf(f.arg))]}
               /\ nextId' = [nextId EXCEPT !.exerciseSet = id + 1]
               /\ calls' = [calls EXCEPT ![p] = Finish([f EXCEPT !.newId = id], "created")]
          ELSE /\ calls' = [calls EXCEPT ![p] = Finish(f, "throw")]
               /\ UNCHANGED <<exerciseSets, nextId>>
  /\ UNCHANGED <<weekdays, workoutExercises>>
  /\ UNCHANGED authVars
  /\ UNCHANGED executeVars
  /\ UNCHANGED listVars
  /\ UNCHANGED screenVars

\* ---------------------------------------------------------- deleteSet
deleteSet(p, setId) ==
  /\ CallFree(p)
  /\ \E resp \in DocResponses(\E s \in exerciseSets : s.id = setId) :
       /\ exerciseSets' = (IF resp = "ok"
                           THEN {s \in exerciseSets : s.id # setId}
                           ELSE exerciseSets)
       /\ calls' = [calls EXCEPT ![p] =
            Finish(Logged(NewCall("deleteSet", "deleteDocument", setId),
                          "deleteDocument"),
                   IF resp = "ok" THEN "true" ELSE "throw")]
  /\ UNCHANGED <<weekdays, workoutExercises, nextId>>
  /\ UNCHANGED authVars
  /\ UNCHANGED executeVars
  /\ UNCHANGED listVars
  /\ UNCHANGED screenVars

\* ------------------------------------------ deleteExerciseFromWeekday
\* Where the call goes after the step at pc: the sets are listed and
\* deleted inside an inner try whose catch only logs, then the parent is
\* deleted.  todo: the listed sets not yet deleted; failed: the inner try
\* threw.
DeleteNextPc_parentFirst(pc, todo, failed) ==
  IF pc = "listDocuments" THEN "deleteParent"
  ELSE IF todo # <<>> /\ ~failed THEN "deleteSet"
  ELSE "done"

DeleteNextPc(pc, todo, failed) ==
  IF pc = "deleteParent" THEN "done"
  ELSE IF failed \/ todo = <<>> THEN "deleteParent"
  ELSE "deleteSet"

deleteExerciseFromWeekday_start(p, workoutExerciseId) ==
  /\ CallFree(p)
  /\ calls' = [calls EXCEPT ![p] =
       NewCall("deleteExerciseFromWeekday", "listDocuments", workoutExerciseId)]
  /\ UNCHANGED <<weekdays, workoutExercises, exerciseSets, nextId>>
  /\ UNCHANGED authVars
  /\ UNCHANGED executeVars
  /\ UNCHANGED listVars
  /\ UNCHANGED screenVars

deleteExerciseFromWeekday_listDocuments(p) ==
  /\ At(p, "deleteExerciseFromWeekday", "listDocuments")
  /\ \E resp \in Responses :
       LET todo == IF resp = "ok"
                   THEN Ascending({s.id : s \in SetsOf(calls[p].arg)})
                   ELSE <<>>
       IN calls' = [calls EXCEPT ![p] =
            [Logged(calls[p], "listDocuments") EXCEPT
               !.todo = todo,
               !.failed = (resp # "ok"),
               !.pc = DeleteNextPc("listDocuments", todo, resp # "ok")]]
  /\ UNCHANGED <<weekdays, workoutExercises, exerciseSets, nextId>>
  /\ UNCHANGED authVars
  /\ UNCHANGED executeVars
  /\ UNCHANGED listVars
  /\ UNCHANGED screenVars

deleteExerciseFromWeekday_deleteSet(p) ==
  /\ At(p, "deleteExerciseFromWeekday", "deleteSet")
  /\ LET setId == Head(calls[p].todo) IN
     \E resp \in DocResponses(\E s \in exerciseSets : s.id = setId) :
       /\ exerciseSets' = (IF resp = "ok"
                           THEN {s \in exerciseSets : s.id # setId}
                           ELSE exerciseSets)
       /\ calls' = [calls EXCEPT ![p] =
            [Logged(calls[p], "deleteSet") EXCEPT
               !.todo = Tail(calls[p].todo),
               !.failed = (resp # "ok"),
               !.pc = DeleteNextPc("deleteSet", Tail(calls[p].todo), resp # "ok")]]
  /\ UNCHANGED <<weekdays, workoutExercises, nextId>>
  /\ UNCHANGED authVars
  /\ UNCHANGED executeVars
  /\ UNCHANGED listVars
  /\ UNCHANGED screenVars

deleteExerciseFromWeekday_deleteParent(p) ==
  /\ At(p, "deleteExerciseFromWeekday", "deleteParent")
  /\ \E resp \in DocResponses(calls[p].arg \in WorkoutExerciseIds) :
       /\ workoutExercises' = (IF resp = "ok"
                               THEN {w \in workoutExercises : w.id # calls[p].arg}
                               ELSE workoutExercises)
       /\ calls' = [calls EXCEPT ![p] =
            [Logged(calls[p], "deleteParent") EXCEPT
               !.ret = IF resp = "ok" THEN "true" ELSE "throw",
               !.pc = IF resp = "ok"
                      THEN DeleteNextPc("deleteParent", calls[p].todo, calls[p].failed)
                      ELSE "done"]]
  /\ UNCHANGED <<weekdays, exerciseSets, nextId>>
  /\ UNCHANGED authVars
  /\ UNCHANGED executeVars
  /\ UNCHANGED listVars
  /\ UNCHANGED screenVars

\* ------------------------------------------------ getWeekdayExercises
\* listDocuments(WORKOUT_EXERCISES, [equal('weekdayId', weekdayId)])
ListedWorkoutExercises_all(weekdayId) == workoutExercises

ListedWorkoutExercises(weekdayId) ==
  {w \in workoutExercises : w.weekdayId = weekdayId}

\* Documents in listing order (by id).
RECURSIVE InListingOrder(_)
InListingOrder(S) ==
  IF S = {} THEN <<>>
  ELSE LET d == CHOOSE x \in S : \A y \in S : x.id <= y.id
       IN <<d>> \o InListingOrder(S \ {d})

\* Sets under orderAsc('setNumber'); equal numbers in listing order.
RECURSIVE BySetNumber(_)
BySetNumber(S) ==
  IF S = {} THEN <<>>
  ELSE LET d == CHOOSE x \in S : \A y \in S :
                  \/ x.setNumber < y.setNumber
                  \/ x.setNumber = y.setNumber /\ x.id <= y.id
       IN <<d>> \o BySetNumber(S \ {d})

Caught_dropped(f, workoutExercise) ==
  LET g == [f EXCEPT !.todo = Tail(f.todo),
                     !.caught = f.caught \cup {workoutExercise.id}]
  IN IF g.todo = <<>> THEN Finish(g, "returned")
     ELSE [g EXCEPT !.pc = "getDocument"]

Placeholder(workoutExercise) ==
  [id |-> workoutExercise.id, exerciseName |-> "Unknown Exercise", sets |-> <<>>]

\* After one entry is pushed: the next listed document, or the return.
Pushed(f, entry) ==
  LET g == [f EXCEPT !.out = Append(f.out, entry), !.todo = Tail(f.todo)]
  IN IF g.todo = <<>> THEN Finish(g, "returned")
     ELSE [g EXCEPT !.pc = "getDocument"]

\* The inner catch: the placeholder entry is pushed for the document whose
\* details or sets could not be fetched.
Caught(f, workoutExercise) ==
  Pushed([f EXCEPT !.caught = f.caught \cup {workoutExercise.id}],
         Placeholder(workoutExercise))

getWeekdayExercises_start(p, weekdayId) ==
  /\ CallFree(p)
  /\ calls' = [calls EXCEPT ![p] =
       NewCall("getWeekdayExercises", "listDocuments", weekdayId)]
  /\ UNCHANGED <<weekdays, workoutExercises, exerciseSets, nextId>>
  /\ UNCHANGED authVars
  /\ UNCHANGED executeVars
  /\ UNCHANGED listVars
  /\ UNCHANGED screenVars

getWeekdayExercises_listDocuments(p) ==
  /\ At(p, "getWeekdayExercises", "listDocuments")
  /\ \E resp \in Responses :
       LET f == Logged(calls[p], "listDocuments")
           listed == InListingOrder(ListedWorkoutExercises(f.arg))
       IN calls' = [calls EXCEPT ![p] =
            IF resp # "ok" THEN Finish([f EXCEPT !.failed = TRUE], "throw")
            ELSE IF listed = <<>> THEN Finish(f, "returned")
            ELSE [f EXCEPT !.todo = listed, !.pc = "getDocument"]]
  /\ UNCHANGED <<weekdays, workoutExercises, exerciseSets, nextId>>
  /\ UNCHANGED authVars
  /\ UNCHANGED executeVars
  /\ UNCHANGED listVars
  /\ UNCHANGED screenVars

\* getDocument(EXERCISES, workoutExercise.exerciseId); a failure pushes the
\* placeholder entry.
getWeekdayExercises_getDocument(p) ==
  /\ At(p, "getWeekdayExercises", "getDocument")
  /\ LET f == Logged(calls[p], "getDocument")
         workoutExercise == Head(f.todo)
     IN \E resp \in DocResponses(workoutExercise.exerciseId \in Exercises) :
          calls' = [calls EXCEPT ![p] =
            IF resp = "ok" THEN [f EXCEPT !.pc = "listSets"]
            ELSE Caught(f, workoutExercise)]
  /\ UNCHANGED <<weekdays, workoutExercises, exerciseSets, nextId>>
  /\ UNCHANGED authVars
  /\ UNCHANGED executeVars
  /\ UNCHANGED listVars
  /\ UNCHANGED screenVars

getWeekdayExercises_listSets(p) ==
  /\ At(p, "getWeekdayExercises", "listSets")
  /\ LET f == Logged(calls[p], "listSets")
         workoutExercise == Head(f.todo)
     IN \E resp \in Responses :
          calls' = [calls EXCEPT ![p] =
            IF resp = "ok"
            THEN Pushed(f, [id |-> workoutExercise.id,
                            exerciseName |-> workoutExercise.exerciseId,
                            sets |-> BySetNumber(SetsOf(workoutExercise.id))])
            ELSE Caught(f, workoutExercise)]
  /\ UNCHANGED <<weekdays, workoutExercises, exerciseSets, nextId>>
  /\ UNCHANGED authVars
  /\ UNCHANGED executeVars
  /\ UNCHANGED listVars
  /\ UNCHANGED screenVars

\* ------------------------------------------- the workoutService machine
\* One caller, one call at a time, on the weekdays of a registered user.
Caller == {"a"}

CalledWeekdays == {1, 2}

SetNumbers == 0..MaxSetNumber

EverCreated(collection) == 1..(nextId[collection] - 1)

Init ==
  /\ sessions = 1
  /\ current = TRUE
  /\ isLoggedIn = TRUE
  /\ isLoading = FALSE
  /\ build \in {b \in Builds : b.nav = "app" /\ b.svc = "app"}
  /\ frame = Idle
  /\ StoreInit
  /\ ScreenInit

Next ==
  \E p \in Caller :
    \/ \E weekdayId \in CalledWeekdays, exerciseId \in Exercises :
         addExerciseToWeekday(p, weekdayId, exerciseId)
    \/ \E workoutExerciseId \in EverCreated("workoutExercise"),
          setNumber \in SetNumbers :
         addSetToExercise_start(p, workoutExerciseId, setNumber)
    \/ addSetToExercise_listDocuments(p)
    \/ addSetToExercise_createDocument(p)
    \/ \E setId \in EverCreated("exerciseSet") : deleteSet(p, setId)
    \/ \E workoutExerciseId \in EverCreated("workoutExercise") :
         deleteExerciseFromWeekday_start(p, workoutExerciseId)
    \/ deleteExerciseFromWeekday_listDocuments(p)
    \/ deleteExerciseFromWeekday_deleteSet(p)
    \/ deleteExerciseFromWeekday_deleteParent(p)
    \/ \E weekdayId \in CalledWeekdays : getWeekdayExercises_start(p, weekdayId)
    \/ getWeekdayExercises_listDocuments(p)
    \/ getWeekdayExercises_getDocument(p)
    \/ getWeekdayExercises_listSets(p)

Spec == Init /\ [][Next]_vars

\* ------------------------------------------- two concurrent callers
\* WeekdayDetailsScreen.handleAddSet starts addSetToExercise without
\* awaiting it, so a second call can start while the first is in flight.
\* One workout exercise is stored.
InitConcurrent ==
  /\ sessions = 1
  /\ current = TRUE
  /\ isLoggedIn = TRUE
  /\ isLoading = FALSE
  /\ build = [nav |-> "app", svc |-> "app"]
  /\ frame = Idle
  /\ weekdays = SeedWeekdays
  /\ workoutExercises = {[id |-> 1, weekdayId |-> 1, exerciseId |-> "e1"]}
  /\ exerciseSets = {}
  /\ nextId = [weekday |-> WEEKDAYS_PER_USER + 1, workoutExercise |-> 2,
               exerciseSet |-> 1]
  /\ calls = [p \in Slots |-> CallIdle]
  /\ ScreenInit

NextConcurrent ==
  \E p \in Slots :
    \/ \E setNumber \in SetNumbers : addSetToExercise_start(p, 1, setNumber)
    \/ addSetToExercise_listDocuments(p)
    \/ addSetToExercise_createDocument(p)
    \/ \E setId \in EverCreated("exerciseSet") : deleteSet(p, setId)

SpecConcurrent == InitConcurrent /\ [][NextConcurrent]_vars

\* ============================================ weekdays of a user
UserWeekdays(userId) == {d \in weekdays : d.userId = userId}

\* Weekdays under orderAsc('order'); equal orders in listing order.
RECURSIVE ByOrder(_)
ByOrder(S) ==
  IF S = {} THEN <<>>
  ELSE LET d == CHOOSE x \in S : \A y \in S :
                  \/ x.order < y.order
                  \/ x.order = y.order /\ x.id <= y.id
       IN <<d>> \o ByOrder(S \ {d})

\* WorkoutScreen.defaultWeekdays: $id 'monday' .. 'sunday', here -1 .. -7;
\* no document of the store has such an id.
defaultWeekdays ==
  [k \in 1..WEEKDAYS_PER_USER |-> [id |-> 0 - k, exerciseCount |-> 0]]

\* ---------------------------------------------- createInitialWeekdays
\* One createDocument per await, orders 1..7; the first failure is
\* rethrown and ends the loop.  num is the order created next.
CreateWeekday_sameOrder(userId, order) ==
  /\ weekdays' = weekdays \cup
       {[id |-> nextId.weekday, userId |-> userId, order |-> 1]}
  /\ nextId' = [nextId EXCEPT !.weekday = nextId.weekday + 1]

CreateWeekday(userId, order) ==
  /\ weekdays' = weekdays \cup
       {[id |-> nextId.weekday, userId |-> userId, order |-> order]}
  /\ nextId' = [nextId EXCEPT !.weekday = nextId.weekday + 1]

\* ------------------------------------------------ authService.register
\* src/app/services/authService.js: account.create, createEmailSession,
\* createInitialWeekdays(newUser.$id); any error is rethrown, nothing is
\* undone.  Called by SignUpScreen.handleSignUp (auth stack shown).
register_start(p, email) ==
  /\ CallFree(p) /\ Free /\ ~isLoading /\ ~isLoggedIn
  /\ build.svc = "app"
  /\ calls' = [calls EXCEPT ![p] = NewCall("register", "account.create", email)]
  /\ UNCHANGED <<weekdays, workoutExercises, exerciseSets, nextId>>
  /\ UNCHANGED authVars
  /\ UNCHANGED executeVars
  /\ UNCHANGED listVars
  /\ UNCHANGED screenVars

register_create(p) ==
  /\ At(p, "register", "account.create")
  /\ \E resp \in DocResponses(calls[p].arg \notin accounts) :
       LET f == Logged(calls[p], "account.create") IN
       /\ accounts' = (IF resp = "ok" THEN accounts \cup {f.arg} ELSE accounts)
       /\ calls' = [calls EXCEPT ![p] =
            IF resp = "ok" THEN [f EXCEPT !.pc = "createEmailSession"]
            ELSE Finish(f, "throw")]
  /\ UNCHANGED <<weekdays, workoutExercises, exerciseSets, nextId>>
  /\ UNCHANGED authVars
  /\ UNCHANGED executeVars
  /\ UNCHANGED listVars
  /\ UNCHANGED <<sessionUser, batches, user, loading, shown, route, exercises,
                 selectedExercise, rows, submitting>>

register_createEmailSession(p) ==
  /\ At(p, "register", "createEmailSession")
  /\ \E resp \in CreateSessionResponses(TRUE) :
       LET f == Logged(calls[p], "createEmailSession") IN
       /\ resp = "ok" => sessions < MaxSessions
       /\ CreateSessionEffect(resp)
       /\ sessionUser' = (IF resp = "ok" THEN f.arg ELSE sessionUser)
       /\ calls' = [calls EXCEPT ![p] =
            IF resp = "ok" THEN [f EXCEPT !.pc = "createWeekday", !.num = 1]
            ELSE Finish(f, "throw")]
  /\ UNCHANGED <<weekdays, workoutExercises, exerciseSets, nextId>>
  /\ UNCHANGED <<isLoggedIn, isLoading, frame, build>>
  /\ UNCHANGED <<accounts, batches, user, loading, shown, route, exercises,
                 selectedExercise, rows, submitting>>
  /\ UNCHANGED executeVars
  /\ UNCHANGED listVars

register_createWeekday(p) ==
  /\ At(p, "register", "createWeekday")
  /\ \E resp \in Responses :
       LET f == Logged(calls[p], "createWeekday") IN
       /\ (resp = "ok" /\ f.num = 1) => batches < MaxBatches
       /\ batches' = (IF resp = "ok" /\ f.num = 1 THEN batches + 1 ELSE batches)
       /\ IF resp = "ok"
          THEN /\ CreateWeekday(f.arg, f.num)
               /\ calls' = [calls EXCEPT ![p] =
                    IF f.num = WEEKDAYS_PER_USER THEN Finish(f, "newUser")
                    ELSE [f EXCEPT !.num = f.num + 1]]
          ELSE /\ calls' = [calls EXCEPT ![p] = Finish(f, "throw")]
               /\ UNCHANGED <<weekdays, nextId>>
  /\ UNCHANGED <<workoutExercises, exerciseSets>>
  /\ UNCHANGED authVars
  /\ UNCHANGED executeVars
  /\ UNCHANGED listVars
  /\ UNCHANGED <<accounts, sessionUser, user, loading, shown, route, exercises,
                 selectedExercise, rows, submitting>>

\* ------------------------------------------------------ WorkoutScreen
\* The tab is mounted while the authenticated stack is shown.
\* fetchUserData (mount effect): account.get(), then setLoading(false).
fetchUserData(p) ==
  /\ CallFree(p) /\ Free /\ ~isLoading /\ isLoggedIn
  /\ route = WorkoutHome /\ user = "none"
  /\ \E resp \in AccountGetResponses :
       user' = (IF resp = "user" THEN sessionUser ELSE "none")
  /\ loading' = FALSE
  /\ UNCHANGED storeVars
  /\ UNCHANGED authVars
  /\ UNCHANGED executeVars
  /\ UNCHANGED listVars
  /\ UNCHANGED <<accounts, sessionUser, batches, shown, route, exercises,
                 selectedExercise, rows, submitting>>

\* What loadData sets as `weekdays`: the list ensureWeekdaysExist returned,
\* or the defaults when that list is empty.
Fetched(userWeekdays) ==
  IF Len(userWeekdays) > 0 THEN userWeekdays ELSE defaultWeekdays

\* The end of loadData: setWeekdays(...), setLoading(false).
LoadDone(p, f, userWeekdays) ==
  /\ shown' = Fetched(userWeekdays)
  /\ loading' = FALSE
  /\ calls' = [calls EXCEPT ![p] = Finish(NewCall("loadData", "-", f.arg), "set")]

\* After ensureWeekdaysExist's first getUserWeekdays answered (an error
\* counts as the empty list): create the defaults when fewer than seven.
AfterFirstGet(p, f, userWeekdays) ==
  IF Len(userWeekdays) < WEEKDAYS_PER_USER
  THEN /\ calls' = [calls EXCEPT ![p] =
            [f EXCEPT !.pc = "createWeekday", !.num = 1, !.out = <<>>,
                      !.todo = <<>>]]
       /\ UNCHANGED <<shown, loading>>
  ELSE LoadDone(p, f, userWeekdays)

\* After the getUserWeekdays in phase ("get1", "get2") answered.
AfterGet(p, f, phase, userWeekdays) ==
  IF phase = "get1" THEN AfterFirstGet(p, f, userWeekdays)
  ELSE LoadDone(p, f, userWeekdays)

\* loadData (focus effect), with user && user.$id.
loadData_start(p) ==
  /\ CallFree(p) /\ Free /\ ~isLoading /\ isLoggedIn
  /\ route = WorkoutHome /\ user # "none"
  /\ loading' = TRUE
  /\ calls' = [calls EXCEPT ![p] =
       [NewCall("loadData", "listDocuments", user) EXCEPT !.phase = "get1"]]
  /\ UNCHANGED <<weekdays, workoutExercises, exerciseSets, nextId>>
  /\ UNCHANGED authVars
  /\ UNCHANGED executeVars
  /\ UNCHANGED listVars
  /\ UNCHANGED <<accounts, sessionUser, batches, user, shown, route, exercises,
                 selectedExercise, rows, submitting>>

\* getUserWeekdays: the listing of the user's weekdays.
loadData_listDocuments(p) ==
  /\ At(p, "loadData", "listDocuments")
  /\ \E resp \in Responses :
       LET f == Logged(calls[p], "listDocuments")
           listed == ByOrder(UserWeekdays(f.arg))
       IN IF resp = "ok" /\ listed # <<>>
          THEN /\ calls' = [calls EXCEPT ![p] =
                    [f EXCEPT !.pc = "countDocuments", !.todo = listed, !.out = <<>>]]
               /\ UNCHANGED <<shown, loading>>
          ELSE AfterGet(p, f, f.phase, <<>>)
  /\ UNCHANGED <<weekdays, workoutExercises, exerciseSets, nextId>>
  /\ UNCHANGED authVars
  /\ UNCHANGED executeVars
  /\ UNCHANGED listVars
  /\ UNCHANGED <<accounts, sessionUser, batches, user, route, exercises,
                 selectedExercise, rows, submitting>>

\* getUserWeekdays: the count query of one listed weekday; a failure fails
\* the whole getUserWeekdays.
loadData_countDocuments(p) ==
  /\ At(p, "loadData", "countDocuments")
  /\ \E resp \in Responses :
       LET f == Logged(calls[p], "countDocuments")
           weekday == Head(f.todo)
           entry == [id |-> weekday.id,
                     exerciseCount |->
                       Cardinality(ListedWorkoutExercises(weekday.id))]
           g == [f EXCEPT !.todo = Tail(f.todo), !.out = Append(f.out, entry)]
       IN IF resp # "ok" THEN AfterGet(p, f, f.phase, <<>>)
          ELSE IF g.todo = <<>> THEN AfterGet(p, g, f.phase, g.out)
          ELSE /\ calls' = [calls EXCEPT ![p] = g]
               /\ UNCHANGED <<shown, loading>>
  /\ UNCHANGED <<weekdays, workoutExercises, exerciseSets, nextId>>
  /\ UNCHANGED authVars
  /\ UNCHANGED executeVars
  /\ UNCHANGED listVars
  /\ UNCHANGED <<accounts, sessionUser, batches, user, route, exercises,
                 selectedExercise, rows, submitting>>

\* ensureWeekdaysExist: createInitialWeekdays(userId); a failure makes
\* ensureWeekdaysExist return [].
loadData_createWeekday(p) ==
  /\ At(p, "loadData", "createWeekday")
  /\ \E resp \in Responses :
       LET f == Logged(calls[p], "createWeekday") IN
       /\ (resp = "ok" /\ f.num = 1) => batches < MaxBatches
       /\ batches' = (IF resp = "ok" /\ f.num = 1 THEN batches + 1 ELSE batches)
       /\ IF resp = "ok"
          THEN /\ CreateWeekday(f.arg, f.num)
               /\ calls' = [calls EXCEPT ![p] =
                    IF f.num = WEEKDAYS_PER_USER
                    THEN [f EXCEPT !.pc = "listDocuments", !.phase = "get2"]
                    ELSE [f EXCEPT !.num = f.num + 1]]
               /\ UNCHANGED <<shown, loading>>
          ELSE /\ LoadDone(p, f, <<>>)
               /\ UNCHANGED <<weekdays, nextId>>
  /\ UNCHANGED <<workoutExercises, exerciseSets>>
  /\ UNCHANGED authVars
  /\ UNCHANGED executeVars
  /\ UNCHANGED listVars
  /\ UNCHANGED <<accounts, sessionUser, user, route, exercises,
                 selectedExercise, rows, submitting>>

\* ------------------------------------------------------- navigation
\* The entries of the list the user taps in the model.
PressableIndices == {1}

\* WorkoutScreen.handleWeekdayPress: the whole weekday entry is the param.
handleWeekdayPress(i) ==
  /\ CallFree("a") /\ Free /\ ~isLoading /\ isLoggedIn
  /\ route = WorkoutHome /\ ~loading
  /\ i \in DOMAIN shown
  /\ route' = [screen |-> "WeekdayDetails", weekdayId |-> shown[i].id]
  /\ UNCHANGED storeVars
  /\ UNCHANGED authVars
  /\ UNCHANGED executeVars
  /\ UNCHANGED listVars
  /\ UNCHANGED <<accounts, sessionUser, batches, user, loading, shown, exercises,
                 selectedExercise, rows, submitting>>

\* WeekdayDetailsScreen.handleAddExercise: { weekdayId: weekday.$id };
\* AddExerciseScreen mounts with its initial state.
WeekdayDetails_handleAddExercise ==
  /\ route.screen = "WeekdayDetails" /\ CallFree("a")
  /\ route' = [route EXCEPT !.screen = "AddExercise"]
  /\ exercises' = NotFetched
  /\ selectedExercise' = "none"
  /\ rows' = InitialRows
  /\ submitting' = FALSE
  /\ UNCHANGED storeVars
  /\ UNCHANGED authVars
  /\ UNCHANGED executeVars
  /\ UNCHANGED listVars
  /\ UNCHANGED <<accounts, sessionUser, batches, user, loading, shown>>

\* navigation.goBack() of WeekdayDetailsScreen
WeekdayDetails_goBack ==
  /\ route.screen = "WeekdayDetails"
  /\ route' = WorkoutHome
  /\ UNCHANGED storeVars
  /\ UNCHANGED authVars
  /\ UNCHANGED executeVars
  /\ UNCHANGED listVars
  /\ UNCHANGED <<accounts, sessionUser, batches, user, loading, shown, exercises,
                 selectedExercise, rows, submitting>>

\* -------------------------------------------------- AddExerciseScreen
MAX_ROWS == 10

\* Leaving the screen unmounts it: its state is the initial one at the
\* next mount.
AddExercise_unmount ==
  /\ exercises' = NotFetched
  /\ selectedExercise' = "none"
  /\ rows' = InitialRows

\* the header's back button: navigation.goBack()
AddExercise_goBack ==
  /\ route.screen = "AddExercise" /\ CallFree("a")
  /\ route' = [route EXCEPT !.screen = "WeekdayDetails"]
  /\ AddExercise_unmount
  /\ UNCHANGED storeVars
  /\ UNCHANGED authVars
  /\ UNCHANGED executeVars
  /\ UNCHANGED listVars
  /\ UNCHANGED <<accounts, sessionUser, batches, user, loading, shown, submitting>>

\* mount effect: exerciseService.getExercises(); an error leaves the list
\* empty.
AddExercise_fetchExercises ==
  /\ route.screen = "AddExercise" /\ exercises.loading
  /\ \E resp \in Responses :
       exercises' = [loading |-> FALSE,
                     list |-> IF resp = "ok" THEN Exercises ELSE {}]
  /\ UNCHANGED storeVars
  /\ UNCHANGED authVars
  /\ UNCHANGED executeVars
  /\ UNCHANGED listVars
  /\ UNCHANGED <<accounts, sessionUser, batches, user, loading, shown, route,
                 selectedExercise, rows, submitting>>

handleSelectExercise(exercise) ==
  /\ route.screen = "AddExercise" /\ exercise \in exercises.list
  /\ selectedExercise' = exercise
  /\ UNCHANGED storeVars
  /\ UNCHANGED authVars
  /\ UNCHANGED executeVars
  /\ UNCHANGED listVars
  /\ UNCHANGED <<accounts, sessionUser, batches, user, loading, shown, route,
                 exercises, rows, submitting>>

RowIds == {rows[i].id : i \in DOMAIN rows}

\* addSet: nothing at ten rows, else a row with id max + 1.
AddedRow_byLength(rs) ==
  IF Len(rs) >= MAX_ROWS THEN rs
  ELSE Append(rs, [id |-> Len(rs) + 1, reps |-> FALSE, weight |-> FALSE])

AddedRow(rs) ==
  IF Len(rs) >= MAX_ROWS THEN rs
  ELSE Append(rs, [id |-> IF Len(rs) > 0
                          THEN Max({rs[i].id : i \in DOMAIN rs}) + 1 ELSE 1,
                   reps |-> FALSE, weight |-> FALSE])

\* The rows can take one more row within the bounds of a run.
RowsBelow(maxRows, maxRowId) == Len(rows) < maxRows /\ Max(RowIds) < maxRowId

addSet ==
  /\ route.screen = "AddExercise" /\ ~submitting
  /\ rows' = AddedRow(rows)
  /\ UNCHANGED storeVars
  /\ UNCHANGED authVars
  /\ UNCHANGED executeVars
  /\ UNCHANGED listVars
  /\ UNCHANGED <<accounts, sessionUser, batches, user, loading, shown, route,
                 exercises, selectedExercise, submitting>>

\* removeSet: nothing at one row, else the rows with another id.
RemovedRow(rs, setId) ==
  IF Len(rs) <= 1 THEN rs ELSE SelectSeq(rs, LAMBDA r : r.id # setId)

removeSet(setId) ==
  /\ route.screen = "AddExercise" /\ ~submitting
  /\ setId \in RowIds /\ Len(rows) > 1
  /\ rows' = RemovedRow(rows, setId)
  /\ UNCHANGED storeVars
  /\ UNCHANGED authVars
  /\ UNCHANGED executeVars
  /\ UNCHANGED listVars
  /\ UNCHANGED <<accounts, sessionUser, batches, user, loading, shown, route,
                 exercises, selectedExercise, submitting>>

\* updateSetValue(id, field, value); a value counts as filled or empty.
updateSetValue(id, field, filled) ==
  /\ route.screen = "AddExercise" /\ ~submitting
  /\ \E i \in DOMAIN rows : rows[i].id = id /\ rows[i][field] # filled
  /\ rows' = [i \in DOMAIN rows |->
                IF rows[i].id = id THEN [rows[i] EXCEPT ![field] = filled]
                ELSE rows[i]]
  /\ UNCHANGED storeVars
  /\ UNCHANGED authVars
  /\ UNCHANGED executeVars
  /\ UNCHANGED listVars
  /\ UNCHANGED <<accounts, sessionUser, batches, user, loading, shown, route,
                 exercises, selectedExercise, submitting>>

\* handleAddExercise stops at its two checks, with an alert.
Rejected_selectionOnly == selectedExercise = "none"

Rejected ==
  \/ selectedExercise = "none"
  \/ \E i \in DOMAIN rows : ~rows[i].reps \/ ~rows[i].weight

handleAddExercise_start(p) ==
  /\ CallFree(p)
  /\ route.screen = "AddExercise" /\ ~submitting
  /\ IF Rejected
     THEN /\ calls' = [calls EXCEPT ![p] =
               Finish(NewCall("handleAddExercise", "-", route.weekdayId), "alert")]
          /\ UNCHANGED submitting
     ELSE /\ calls' = [calls EXCEPT ![p] =
               [NewCall("handleAddExercise", "addExerciseToWeekday", route.weekdayId)
                EXCEPT !.exerciseId = selectedExercise,
                       !.todo = [i \in DOMAIN rows |-> rows[i].id]]]
          /\ submitting' = TRUE
  /\ UNCHANGED <<weekdays, workoutExercises, exerciseSets, nextId>>
  /\ UNCHANGED authVars
  /\ UNCHANGED executeVars
  /\ UNCHANGED listVars
  /\ UNCHANGED <<accounts, sessionUser, batches, user, loading, shown, route,
                 exercises, selectedExercise, rows>>

\* await workoutService.addExerciseToWeekday(weekdayId, selectedExercise.$id)
handleAddExercise_addExerciseToWeekday(p) ==
  /\ At(p, "handleAddExercise", "addExerciseToWeekday")
  /\ \E resp \in Responses :
       LET f == Logged(calls[p], "addExerciseToWeekday")
           id == nextId.workoutExercise
       IN /\ resp = "ok" => id <= MaxWorkoutExercises
          /\ IF resp = "ok"
             THEN /\ workoutExercises' = workoutExercises \cup
                       {[id |-> id, weekdayId |-> f.arg, exerciseId |-> f.exerciseId]}
                  /\ nextId' = [nextId EXCEPT !.workoutExercise = id + 1]
                  /\ calls' = [calls EXCEPT ![p] =
                       [f EXCEPT !.newId = id, !.pc = "addSetToExercise"]]
                  /\ UNCHANGED submitting
             ELSE /\ calls' = [calls EXCEPT ![p] = Finish(NewCall("handleAddExercise", "-", f.arg), "alert")]
                  /\ submitting' = FALSE
                  /\ UNCHANGED <<workoutExercises, nextId>>
  /\ UNCHANGED <<weekdays, exerciseSets>>
  /\ UNCHANGED authVars
  /\ UNCHANGED executeVars
  /\ UNCHANGED listVars
  /\ UNCHANGED <<accounts, sessionUser, batches, user, loading, shown, route,
                 exercises, selectedExercise, rows>>

\* How the loop over the rows goes on after an answer: the catch alerts
\* and nothing follows; after the last row the screen goes back.
SubmitOutcome_skipFailed(resp, rest) == IF rest = <<>> THEN "goBack" ELSE "next"

SubmitOutcome(resp, rest) ==
  IF resp # "ok" THEN "alert" ELSE IF rest = <<>> THEN "goBack" ELSE "next"

\* await workoutService.addSetToExercise(workoutExercise.$id, reps, weight,
\* set.id): the row id is the set number, so no lookup is made.
handleAddExercise_addSetToExercise(p) ==
  /\ At(p, "handleAddExercise", "addSetToExercise")
  /\ \E resp \in Responses :
       LET f == Logged(calls[p], "addSetToExercise")
           id == nextId.exerciseSet
           rest == Tail(f.todo)
           outcome == SubmitOutcome(resp, rest)
       IN /\ resp = "ok" => id <= MaxSets
          /\ IF resp = "ok"
             THEN /\ exerciseSets' = exerciseSets \cup
                       {[id |-> id, workoutExerciseId |-> f.newId,
                         setNumber |-> Head(f.todo)]}
                  /\ nextId' = [nextId EXCEPT !.exerciseSet = id + 1]
             ELSE UNCHANGED <<exerciseSets, nextId>>
          /\ calls' = [calls EXCEPT ![p] =
               IF outcome = "next" THEN [f EXCEPT !.todo = rest]
               ELSE Finish([NewCall("handleAddExercise", "-", f.arg)
                            EXCEPT !.newId = f.newId], outcome)]
          /\ IF outcome = "goBack"
             THEN /\ route' = [route EXCEPT !.screen = "WeekdayDetails"]
                  /\ AddExercise_unmount
             ELSE UNCHANGED <<route, exercises, selectedExercise, rows>>
          /\ submitting' = (outcome = "next")
  /\ UNCHANGED <<weekdays, workoutExercises>>
  /\ UNCHANGED authVars
  /\ UNCHANGED executeVars
  /\ UNCHANGED listVars
  /\ UNCHANGED <<accounts, sessionUser, batches, user, loading, shown>>

\* WeekdayDetailsScreen.handleAddSet for a displayed exercise with both
\* fields entered: addSetToExercise(currentExercise.$id, reps, weight),
\* no set number.
handleAddSet(p, workoutExerciseId) ==
  /\ route.screen = "WeekdayDetails"
  /\ \E w \in workoutExercises :
       w.id = workoutExerciseId /\ w.weekdayId = route.weekdayId
  /\ addSetToExercise_start(p, workoutExerciseId, 0)

\* ------------------------------------------------ ExecuteWorkoutScreen
\* The elements of an array.
Elements(seq) == {seq[i] : i \in DOMAIN seq}

\* array.filter(id => id !== x)
Without(seq, x) == SelectSeq(seq, LAMBDA y : y # x)

\* completedSets[exerciseId] || []
CompletedSetsOf(cs, exerciseId) ==
  IF exerciseId \in DOMAIN cs THEN cs[exerciseId] ELSE <<>>

\* { ...prev, [exerciseId]: list }
WithKey(cs, exerciseId, list) ==
  [e \in DOMAIN cs \cup {exerciseId} |-> IF e = exerciseId THEN list ELSE cs[e]]

\* delete updated[exerciseId]
WithoutKey(cs, exerciseId) == [e \in DOMAIN cs \ {exerciseId} |-> cs[e]]

\* The updater of handleMarkSetComplete.
ToggledSets_append(prev, exerciseId, setId) ==
  WithKey(prev, exerciseId, Append(CompletedSetsOf(prev, exerciseId), setId))

ToggledSets(prev, exerciseId, setId) ==
  LET list == CompletedSetsOf(prev, exerciseId) IN
  IF setId \in Elements(list)
  THEN WithKey(prev, exerciseId, Without(list, setId))
  ELSE WithKey(prev, exerciseId, Append(list, setId))

\* The check box of a displayed set.
handleMarkSetComplete(exerciseId, setId) ==
  /\ route.screen = "ExecuteWorkout"
  /\ exerciseId \in DOMAIN workout /\ setId \in Elements(workout[exerciseId])
  /\ completedSets' = ToggledSets(completedSets, exerciseId, setId)
  /\ UNCHANGED <<workout, completedExercises>>
  /\ UNCHANGED storeVars
  /\ UNCHANGED authVars
  /\ UNCHANGED screenVars
  /\ UNCHANGED listVars

\* The button in the header of a displayed exercise.
handleMarkExerciseComplete(exerciseId) ==
  /\ route.screen = "ExecuteWorkout"
  /\ exerciseId \in DOMAIN workout
  /\ IF exerciseId \in Elements(completedExercises)
     THEN /\ completedExercises' = Without(completedExercises, exerciseId)
          /\ completedSets' = WithoutKey(completedSets, exerciseId)
     ELSE /\ completedExercises' = Append(completedExercises, exerciseId)
          /\ completedSets' = WithKey(completedSets, exerciseId, workout[exerciseId])
  /\ UNCHANGED workout
  /\ UNCHANGED storeVars
  /\ UNCHANGED authVars
  /\ UNCHANGED screenVars
  /\ UNCHANGED listVars

\* isExerciseComplete(exerciseId, sets) over the given state.
isExerciseComplete(ce, cs, exerciseId, sets) ==
  IF Len(sets) = 0 THEN exerciseId \in Elements(ce)
  ELSE \A i \in DOMAIN sets : sets[i] \in Elements(CompletedSetsOf(cs, exerciseId))

\* The exercises passed to the screen: two with sets, one without.
Workout ==
  [e \in {"w1", "w2", "w3"} |->
     IF e = "w1" THEN <<"s1", "s2">> ELSE IF e = "w2" THEN <<"s3">> ELSE <<>>]

\* ExecuteWorkoutScreen just mounted from WeekdayDetailsScreen.
InitExecute ==
  /\ sessions = 1
  /\ current = TRUE
  /\ isLoggedIn = TRUE
  /\ isLoading = FALSE
  /\ build = [nav |-> "app", svc |-> "app"]
  /\ frame = Idle
  /\ StoreInit
  /\ accounts = {"u1"}
  /\ sessionUser = "u1"
  /\ batches = 1
  /\ user = "u1"
  /\ loading = FALSE
  /\ shown = Fetched([i \in 1..WEEKDAYS_PER_USER |-> [id |-> i, exerciseCount |-> 0]])
  /\ route = [screen |-> "ExecuteWorkout", weekdayId |-> 1]
  /\ exercises = NotFetched
  /\ selectedExercise = "none"
  /\ rows = InitialRows
  /\ submitting = FALSE
  /\ workout = Workout
  /\ completedExercises = <<>>
  /\ completedSets = <<>>
  /\ ListInit

NextExecute ==
  \/ \E exerciseId \in DOMAIN Workout, setId \in {"s1", "s2", "s3"} :
       handleMarkSetComplete(exerciseId, setId)
  \/ \E exerciseId \in DOMAIN Workout : handleMarkExerciseComplete(exerciseId)

SpecExecute == InitExecute /\ [][NextExecute]_vars

\* ------------------------------------------------ the submit machine
\* AddExerciseScreen just mounted for the first weekday of a registered,
\* logged-in user.
InitSubmit ==
  /\ sessions = 1
  /\ current = TRUE
  /\ isLoggedIn = TRUE
  /\ isLoading = FALSE
  /\ build = [nav |-> "app", svc |-> "app"]
  /\ frame = Idle
  /\ StoreInit
  /\ accounts = {"u1"}
  /\ sessionUser = "u1"
  /\ batches = 1
  /\ user = "u1"
  /\ loading = FALSE
  /\ shown = Fetched([i \in 1..WEEKDAYS_PER_USER |-> [id |-> i, exerciseCount |-> 0]])
  /\ route = [screen |-> "AddExercise", weekdayId |-> 1]
  /\ exercises = NotFetched
  /\ selectedExercise = "none"
  /\ rows = InitialRows
  /\ submitting = FALSE
  /\ ExecuteInit
  /\ ListInit

NextSubmit ==
  \/ AddExercise_fetchExercises
  \/ \E exercise \in Exercises : handleSelectExercise(exercise)
  \/ (RowsBelow(MaxRows, MaxRowId) /\ addSet)
  \/ \E setId \in 1..MaxRowId : removeSet(setId)
  \/ \E id \in 1..MaxRowId, field \in {"reps", "weight"}, filled \in BOOLEAN :
       updateSetValue(id, field, filled)
  \/ handleAddExercise_start("a")
  \/ handleAddExercise_addExerciseToWeekday("a")
  \/ handleAddExercise_addSetToExercise("a")
  \/ WeekdayDetails_handleAddExercise

SpecSubmit == InitSubmit /\ [][NextSubmit]_vars

\* The rows alone, up to the screen's limit; values are typed into the
\* first row.
NextRows ==
  \/ (Max(RowIds) < MaxRowIdFull /\ addSet)
  \/ \E setId \in 1..MaxRowIdFull : removeSet(setId)
  \/ \E field \in {"reps", "weight"}, filled \in BOOLEAN :
       updateSetValue(1, field, filled)

SpecRows == InitSubmit /\ [][NextRows]_vars

\* The same client also adds sets from WeekdayDetailsScreen, one call at a
\* time.
NextSets ==
  \/ NextSubmit
  \/ \E workoutExerciseId \in EverCreated("workoutExercise") :
       handleAddSet("a", workoutExerciseId)
  \/ addSetToExercise_listDocuments("a")
  \/ addSetToExercise_createDocument("a")

SpecSets == InitSubmit /\ [][NextSets]_vars

\* ------------------------------------------- the weekly-plan machine
\* A fresh install of the src/app revision: no account, no session, no
\* document; checkAuthStatus in flight.
InitWeekdays ==
  /\ sessions = 0
  /\ current = FALSE
  /\ isLoggedIn = FALSE
  /\ isLoading = TRUE
  /\ build = [nav |-> "app", svc |-> "app"]
  /\ frame = NewFrame("checkAuthStatus", "get")
  /\ weekdays = {}
  /\ workoutExercises = {}
  /\ exerciseSets = {}
  /\ nextId = [weekday |-> 1, workoutExercise |-> 1, exerciseSet |-> 1]
  /\ calls = [p \in Slots |-> CallIdle]
  /\ accounts = {}
  /\ sessionUser = "none"
  /\ batches = 0
  /\ user = "none"
  /\ loading = TRUE
  /\ shown = <<>>
  /\ route = WorkoutHome
  /\ exercises = NotFetched
  /\ selectedExercise = "none"
  /\ rows = InitialRows
  /\ submitting = FALSE
  /\ ExecuteInit
  /\ ListInit

NextWeekdays ==
  \/ checkAuthStatus_get
  \/ \E email \in Users : register_start("a", email)
  \/ register_create("a")
  \/ register_createEmailSession("a")
  \/ register_createWeekday("a")
  \/ (CallFree("a") /\ handleLogin_start)
  \/ handleLogin_getCurrentUser
  \/ fetchUserData("a")
  \/ loadData_start("a")
  \/ loadData_listDocuments("a")
  \/ loadData_countDocuments("a")
  \/ loadData_createWeekday("a")

SpecWeekdays == InitWeekdays /\ [][NextWeekdays]_vars

\* ------------------------------------------ the add-exercise machine
\* The user of the src/app revision is logged in and WorkoutScreen has its
\* user; the registration's batch completed (seven weekdays) or created
\* nothing.
InitAddExercise ==
  /\ sessions = 1
  /\ current = TRUE
  /\ isLoggedIn = TRUE
  /\ isLoading = FALSE
  /\ build = [nav |-> "app", svc |-> "app"]
  /\ frame = Idle
  /\ \E registered \in BOOLEAN :
       /\ weekdays = (IF registered THEN SeedWeekdays ELSE {})
       /\ batches = (IF registered THEN 1 ELSE 0)
       /\ nextId = [weekday |-> IF registered THEN WEEKDAYS_PER_USER + 1 ELSE 1,
                    workoutExercise |-> 1, exerciseSet |-> 1]
  /\ workoutExercises = {}
  /\ exerciseSets = {}
  /\ calls = [p \in Slots |-> CallIdle]
  /\ accounts = {"u1"}
  /\ sessionUser = "u1"
  /\ user = "u1"
  /\ loading = TRUE
  /\ shown = <<>>
  /\ route = WorkoutHome
  /\ exercises = NotFetched
  /\ selectedExercise = "none"
  /\ rows = InitialRows
  /\ submitting = FALSE
  /\ ExecuteInit
  /\ ListInit

NextAddExercise ==
  \/ loadData_start("a")
  \/ loadData_listDocuments("a")
  \/ loadData_countDocuments("a")
  \/ loadData_createWeekday("a")
  \/ \E i \in PressableIndices : handleWeekdayPress(i)
  \/ WeekdayDetails_handleAddExercise
  \/ WeekdayDetails_goBack
  \/ AddExercise_goBack
  \/ AddExercise_fetchExercises
  \/ \E exercise \in Exercises : handleSelectExercise(exercise)
  \/ (RowsBelow(MaxRows, MaxRowId) /\ addSet)
  \/ \E setId \in 1..MaxRowId : removeSet(setId)
  \/ \E id \in 1..MaxRowId, field \in {"reps", "weight"}, filled \in BOOLEAN :
       updateSetValue(id, field, filled)
  \/ handleAddExercise_start("a")
  \/ handleAddExercise_addExerciseToWeekday("a")
  \/ handleAddExercise_addSetToExercise("a")

SpecAddExercise == InitAddExercise /\ [][NextAddExercise]_vars

\* ------------------------------------------------ the auth machine
\* The app starts with whatever session an earlier run left on the
\* service, and with checkAuthStatus in flight.
InitAuth ==
  /\ sessions \in {0, 1}
  /\ current = (sessions = 1)
  /\ isLoggedIn = FALSE
  /\ isLoading = TRUE
  /\ build \in Builds
  /\ frame = NewFrame("checkAuthStatus", "get")
  /\ StoreInit
  /\ ScreenInit

NextAuth ==
  \/ SessionExpires
  \/ checkAuthStatus_get
  \/ login_start
  \/ login_hasActiveSession
  \/ login_get
  \/ login_createEmailSession
  \/ logout_start
  \/ logout_deleteSession
  \/ handleLogin_start
  \/ handleLogin_getCurrentUser
  \/ handleLogin_deleteSession
  \/ handleLogin_createEmailSession
  \/ handleLogin_checkAuthStatus
  \/ handleLogout_start
  \/ handleLogout_settings_logout
  \/ handleLogout_root_logout
  \/ handleLogout_root_deleteSession

SpecAuth == InitAuth /\ [][NextAuth]_vars

\* Every awaited remote call is answered, so a handler in flight takes its
\* next step; when the user acts is left open.
AuthFairness ==
  /\ WF_vars(checkAuthStatus_get)
  /\ WF_vars(handleLogin_getCurrentUser)
  /\ WF_vars(handleLogin_deleteSession)
  /\ WF_vars(handleLogin_createEmailSession)
  /\ WF_vars(handleLogin_checkAuthStatus)
  /\ WF_vars(login_hasActiveSession)
  /\ WF_vars(login_get)
  /\ WF_vars(login_createEmailSession)
  /\ WF_vars(logout_deleteSession)
  /\ WF_vars(handleLogout_settings_logout)
  /\ WF_vars(handleLogout_root_logout)
  /\ WF_vars(handleLogout_root_deleteSession)

SpecAuthLive == SpecAuth /\ AuthFairness


\* ------------------------------------------------------ claims C1-C3
\* C1: a login called while a session exists (every get-current-identity
\* call it made succeeded) has issued no create-session call and returned
\* the existing identity.
C1_LoginWithSessionCreatesNone ==
  (frame.op = "login" /\ frame.pc = "done" /\ frame.hadSession /\ frame.getOk)
    => (frame.creates = 0 /\ frame.ret = "user")

\* C1, for the part_009 revision of authService alone.
C1_LoginWithSessionCreatesNone_p9 ==
  build.svc = "p9" => C1_LoginWithSessionCreatesNone

\* C2: a logout whose delete-session call failed with 401 has returned a
\* success value; it has thrown only on another failure.
C2_Logout401IsSuccess ==
  (frame.op = "logout" /\ frame.pc = "done")
    => /\ frame.resp = "401" => frame.ret # "throw"
       /\ frame.ret = "throw" => frame.resp = "err"

\* C2, for the part_009 revision of authService alone.
C2_Logout401IsSuccess_p9 ==
  build.svc = "p9" => C2_Logout401IsSuccess

\* C3: once SettingsScreen.handleLogout has completed, isLoggedIn is false,
\* whatever the delete-session calls answered.
C3_LogoutClearsFlag ==
  (frame.op = "handleLogout" /\ frame.pc = "done") => ~isLoggedIn

\* C3, for src/app/index.jsx with src/app/screens/SettingsScreen.jsx alone.
C3_LogoutClearsFlag_app ==
  build.nav = "app" => C3_LogoutClearsFlag


\* ------------------------------------------------------ claims C4-C8
\* C4: if listing the sets or deleting one of them failed in
\* deleteExerciseFromWeekday, the WorkoutExercise document was not deleted
\* by the call.
C4_SetsFailureKeepsParent ==
  \A p \in Slots :
    (At(p, "deleteExerciseFromWeekday", "done") /\ calls[p].failed)
      => calls[p].ret # "true"

\* C5: in deleteExerciseFromWeekday no set delete is issued after the delete
\* of the WorkoutExercise document, and that delete is issued at most once.
C5_SetsBeforeParent ==
  \A p \in Slots :
    calls[p].op = "deleteExerciseFromWeekday" =>
      LET log == calls[p].log IN
      /\ \A i, j \in 1..Len(log) :
           (i < j /\ log[i] = "deleteParent") => log[j] # "deleteSet"
      /\ Cardinality({i \in 1..Len(log) : log[i] = "deleteParent"}) <= 1

\* a call that deleted two sets and then the parent
C5_Witness ==
  \E p \in Slots :
    /\ At(p, "deleteExerciseFromWeekday", "done")
    /\ calls[p].log = <<"listDocuments", "deleteSet", "deleteSet", "deleteParent">>
    /\ calls[p].ret = "true"
    /\ SetsOf(calls[p].arg) = {}

\* C6: addSetToExercise without an explicit set number creates a set whose
\* setNumber is 1 + the largest setNumber of the other sets of the workout
\* exercise, or 1 if there is none, whatever the lookup answered.
C6_AutoSetNumber ==
  \A p \in Slots :
    (At(p, "addSetToExercise", "done") /\ calls[p].auto /\ calls[p].ret = "created")
      => LET others == {s \in SetsOf(calls[p].arg) : s.id # calls[p].newId}
             created == CHOOSE s \in exerciseSets : s.id = calls[p].newId
         IN created.setNumber =
              IF others = {} THEN 1
              ELSE Max({s.setNumber : s \in others}) + 1

\* C7: getWeekdayExercises on a weekday with no WorkoutExercise document
\* issues the listing call only and, when the listing answers, returns the
\* empty sequence (a failed listing is rethrown).
C7_EmptyWeekday ==
  \A p \in Slots :
    (At(p, "getWeekdayExercises", "done")
       /\ \A w \in workoutExercises : w.weekdayId # calls[p].arg)
      => /\ calls[p].log = <<"listDocuments">>
         /\ calls[p].out = <<>>
         /\ calls[p].ret = IF calls[p].failed THEN "throw" ELSE "returned"

\* an empty weekday was read while another weekday holds an exercise
C7_Witness ==
  \E p \in Slots :
    /\ At(p, "getWeekdayExercises", "done")
    /\ \A w \in workoutExercises : w.weekdayId # calls[p].arg
    /\ workoutExercises # {}
    /\ calls[p].ret = "returned"

\* C8: when deleteExerciseFromWeekday has returned true, the WorkoutExercise
\* document is gone and no ExerciseSet of it remains.
C8_DeleteRemovesAll ==
  \A p \in Slots :
    (At(p, "deleteExerciseFromWeekday", "done") /\ calls[p].ret = "true")
      => /\ calls[p].arg \notin WorkoutExerciseIds
         /\ SetsOf(calls[p].arg) = {}


\* ----------------------------------------------------- claims C9-C10
BatchInProgress == \E p \in Slots : calls[p].pc = "createWeekday"

\* C9: whenever no weekday batch creation is in progress, each user has
\* either no Weekday record or exactly seven.
C9_ZeroOrSevenWeekdays ==
  ~BatchInProgress =>
    \A u \in Users : Cardinality(UserWeekdays(u)) \in {0, WEEKDAYS_PER_USER}

\* C10: every WorkoutExercise document references an existing Weekday
\* record and an existing library Exercise.
C10_LiveReferences ==
  \A w \in workoutExercises :
    /\ \E d \in weekdays : d.id = w.weekdayId
    /\ w.exerciseId \in Exercises

\* --------------------------------------------------------- claim C11
\* The set a finished addSetToExercise call created.
CreatedBy(p) == {s \in exerciseSets : s.id = calls[p].newId}

\* p and q are finished automatic calls for one workout exercise whose
\* lookups were both answered, over the same stored sets, before either
\* created its document.
BothLookedUpFirst(p, q) ==
  /\ p # q
  /\ calls[p].seen = calls[q].seen
  /\ \A r \in {p, q} :
       /\ calls[r].op = "addSetToExercise" /\ calls[r].ret = "created"
       /\ calls[r].auto /\ ~calls[r].failed
  /\ calls[p].arg = calls[q].arg
  /\ calls[p].newId \notin calls[q].seen
  /\ calls[q].newId \notin calls[p].seen

\* C11: two addSetToExercise calls without an explicit set number for one
\* workout exercise that both look up the existing sets before either
\* creates its document create sets with the same setNumber.
C11_StaleLookupsCollide ==
  \A p, q \in Slots :
    BothLookedUpFirst(p, q) =>
      \A s \in CreatedBy(p), t \in CreatedBy(q) : s.setNumber = t.setNumber

\* Two stored sets of one workout exercise share a setNumber after two
\* such calls.
C11_Witness ==
  \E p, q \in Slots :
    /\ BothLookedUpFirst(p, q)
    /\ \E s \in CreatedBy(p), t \in CreatedBy(q) :
         /\ s.id # t.id
         /\ s.workoutExerciseId = t.workoutExerciseId
         /\ s.setNumber = t.setNumber

\* --------------------------------------------------------- claim C12
\* C12: each set a step creates has a setNumber greater than that of every
\* set already stored for the same workout exercise.
C12_NewSetNumberIsGreatest ==
  [][\A s \in exerciseSets' \ exerciseSets :
       \A t \in SetsOf(s.workoutExerciseId) : s.setNumber > t.setNumber]_vars

\* --------------------------------------------------------- claim C13
\* C13: while the startup session check is in flight neither stack is
\* rendered; once it has completed the tab stack is rendered if and only if
\* the check returned an identity, and otherwise the auth stack is.
C13_StartupCheckDecides ==
  /\ (frame.op = "checkAuthStatus" /\ frame.pc = "get") => Rendered = "loading"
  /\ (frame.op = "checkAuthStatus" /\ frame.pc = "done") =>
       Rendered = (IF frame.ret = "true" THEN "AppTabs" ELSE "Auth")

\* The check found a session and the tab stack is rendered.
C13_Witness ==
  /\ frame.op = "checkAuthStatus" /\ frame.pc = "done"
  /\ frame.ret = "true" /\ Rendered = "AppTabs"

\* The check found none and the auth stack is rendered.
C13_Witness_auth ==
  /\ frame.op = "checkAuthStatus" /\ frame.pc = "done"
  /\ frame.ret = "false" /\ Rendered = "Auth"

\* --------------------------------------------------------- claim C14
\* LoginScreen has just submitted the credentials of a registered account
\* while no remote session exists.
LoginSubmitted ==
  /\ frame.op = "handleLogin"
  /\ frame.pc \in {"getCurrentUser", "deleteSession"}
  /\ frame.credsOk /\ sessions = 0

\* C14: submitting the login form with the credentials of a registered
\* account, with no remote session, leads to isLoggedIn and the tab stack.
C14_LoginLeadsToTabs == LoginSubmitted ~> (isLoggedIn /\ Rendered = "AppTabs")

\* With the navigator of src/app/index.jsx a login submitted without a
\* session ends with false and does not set isLoggedIn.
C14_AppLoginWithoutSessionFails ==
  (/\ build.nav = "app" /\ frame.op = "handleLogin" /\ frame.pc = "done"
   /\ ~frame.hadSession)
    => (frame.ret = "false" /\ ~isLoggedIn)

\* ----------------------------------------------------- claims C15-C16
\* The sets of an exercise marked complete.
MarkedSets(cs, exerciseId) ==
  Elements(CompletedSetsOf(cs, exerciseId)) \cap Elements(workout[exerciseId])

\* C15: pressing the exercise-level button of an exercise displayed as not
\* complete marks all of its sets complete and displays it as complete;
\* pressing it on an exercise displayed as complete leaves none of its sets
\* marked complete.
C15_ExerciseButtonFollowsDisplay ==
  [][\A exerciseId \in DOMAIN workout :
       handleMarkExerciseComplete(exerciseId) =>
         IF isExerciseComplete(completedExercises, completedSets, exerciseId,
                               workout[exerciseId])
         THEN MarkedSets(completedSets', exerciseId) = {}
         ELSE /\ MarkedSets(completedSets', exerciseId) =
                   Elements(workout[exerciseId])
              /\ isExerciseComplete(completedExercises', completedSets',
                                    exerciseId, workout[exerciseId])]_vars

\* No id occurs twice in the array.
NoDuplicates(seq) == Cardinality(Elements(seq)) = Len(seq)

\* C16: handleMarkSetComplete(exerciseId, setId) toggles the membership of
\* setId in the completed sets of exerciseId, a second application restores
\* the completed sets, no set id appears twice, and the completed sets of
\* every other exercise and completedExercises are unchanged.
C16_SetToggle ==
  [][\A exerciseId \in DOMAIN workout :
       \A setId \in Elements(workout[exerciseId]) :
         handleMarkSetComplete(exerciseId, setId) =>
           LET before == Elements(CompletedSetsOf(completedSets, exerciseId))
               after == Elements(CompletedSetsOf(completedSets', exerciseId))
               again == ToggledSets(completedSets', exerciseId, setId)
           IN /\ after = (IF setId \in before THEN before \ {setId}
                          ELSE before \cup {setId})
              /\ Elements(CompletedSetsOf(again, exerciseId)) = before
              /\ NoDuplicates(CompletedSetsOf(completedSets', exerciseId))
              /\ NoDuplicates(CompletedSetsOf(again, exerciseId))
              /\ \A other \in DOMAIN workout \ {exerciseId} :
                   /\ CompletedSetsOf(completedSets', other) =
                        CompletedSetsOf(completedSets, other)
                   /\ CompletedSetsOf(again, other) =
                        CompletedSetsOf(completedSets, other)
              /\ completedExercises' = completedExercises]_vars

\* A set toggled off and on again after other sets were marked.
C16_Witness ==
  /\ route.screen = "ExecuteWorkout"
  /\ CompletedSetsOf(completedSets, "w1") = <<"s2", "s1">>
  /\ CompletedSetsOf(completedSets, "w2") = <<"s3">>
  /\ "w3" \in Elements(completedExercises)

\* --------------------------------------------------------- claim C17
\* C17: ensureWeekdaysExist goes on to createInitialWeekdays only when the
\* store holds fewer than seven Weekday records of the user.
C17_CreatesOnlyBelowSeven ==
  [][\A p \in Slots :
       (/\ calls'[p].op = "loadData" /\ calls'[p].pc = "createWeekday"
        /\ calls[p].pc # "createWeekday")
         => Cardinality(UserWeekdays(calls'[p].arg)) < WEEKDAYS_PER_USER]_vars

\* --------------------------------------------------------- claim C18
\* The step of handleAddExercise in which a set creation failed: the
\* call was answered and stored no new set.
SetCreationFailed(p) ==
  /\ At(p, "handleAddExercise", "addSetToExercise")
  /\ calls'[p] # calls[p]
  /\ exerciseSets' \ exerciseSets = {}

\* C18: when a set creation fails during handleAddExercise the workout
\* exercise and the sets created before stay stored, the handler ends there
\* (no further row, no retry), the screen stays and submitting is false.
C18_SetFailureStopsSubmit ==
  [][\A p \in Slots :
       SetCreationFailed(p) =>
         /\ \E w \in workoutExercises' : w.id = calls[p].newId
         /\ workoutExercises' = workoutExercises
         /\ exerciseSets' = exerciseSets
         /\ calls'[p].pc = "done" /\ calls'[p].ret = "alert"
         /\ route' = route /\ route.screen = "AddExercise"
         /\ rows' = rows
         /\ submitting' = FALSE]_vars

\* The second of two rows failed: the workout exercise and its first set
\* are stored and the screen is still open.
C18_Witness ==
  \E p \in Slots :
    /\ calls[p].op = "handleAddExercise" /\ calls[p].ret = "alert"
    /\ \E w \in workoutExercises : w.id = calls[p].newId
    /\ Cardinality(SetsOf(calls[p].newId)) = 1
    /\ Len(rows) = 2
    /\ route.screen = "AddExercise" /\ ~submitting

\* --------------------------------------------------------- claim C19
\* A row with an empty reps or weight value.
SomeRowEmpty == \E i \in DOMAIN rows : ~rows[i].reps \/ ~rows[i].weight

\* handleAddExercise is called in this step.
AddExerciseCalled(p) ==
  /\ CallFree(p)
  /\ calls'[p] # calls[p]
  /\ calls'[p].op = "handleAddExercise"

C20_RowsWithinLimits ==
  route.screen = "AddExercise" =>
    /\ Len(rows) >= 1 /\ Len(rows) <= MAX_ROWS
    /\ \A i, j \in DOMAIN rows : rows[i].id = rows[j].id => i = j

\* Ten rows, the first removed and a row added since: the ids run from 2
\* to 11.
C20_Witness ==
  /\ route.screen = "AddExercise"
  /\ Len(rows) = MAX_ROWS
  /\ RowIds = 2..(MAX_ROWS + 1)

\* --------------------------------------------------------- claim C21
\* The remote calls of a register that succeeds, in order.
RegisterCalls ==
  <<"account.create", "createEmailSession">> \o
  [k \in 1..WEEKDAYS_PER_USER |-> "createWeekday"]

\* The calls of a finished register that succeeded: all of them, or all
\* but the last one when it threw.
Succeeded(f) == IF f.ret = "newUser" THEN Len(f.log) ELSE Len(f.log) - 1

\* C21: register calls account.create, createEmailSession and the seven
\* weekday creations in this order, with orders 1 to 7; it returns the new
\* user only after all nine succeeded, otherwise rethrows at the first
\* failure, and what the earlier calls did stays.
C21_RegisterInOrder ==
  \A p \in Slots :
    (calls[p].op = "register" /\ calls[p].pc = "done") =>
      LET f == calls[p]
          created == Succeeded(f) - 2
      IN /\ f.log = SubSeq(RegisterCalls, 1, Len(f.log))
         /\ f.ret \in {"newUser", "throw"}
         /\ f.ret = "newUser" <=> Succeeded(f) = Len(RegisterCalls)
         /\ Succeeded(f) >= 1 => f.arg \in accounts
         /\ Succeeded(f) >= 2 => (current /\ sessionUser = f.arg)
         /\ Succeeded(f) >= 2 =>
              /\ Cardinality(UserWeekdays(f.arg)) = created
              /\ {d.order : d \in UserWeekdays(f.arg)} = 1..created

\* The third weekday creation failed: the account, the session and two
\* weekdays stay.
C21_Witness ==
  \E p \in Slots :
    /\ calls[p].op = "register" /\ calls[p].ret = "throw"
    /\ Len(calls[p].log) = 5
    /\ calls[p].arg \in accounts /\ sessionUser = calls[p].arg
    /\ {d.order : d \in UserWeekdays(calls[p].arg)} = {1, 2}

\* All nine calls succeeded and the new user is returned.
C21_Witness_newUser ==
  \E p \in Slots :
    /\ calls[p].op = "register" /\ calls[p].ret = "newUser"
    /\ {d.order : d \in UserWeekdays(calls[p].arg)} = 1..WEEKDAYS_PER_USER

\* ===================================================== getUserWeekdays
\* weekday.exerciseCount = exercises.total of the weekday's count query.
WithExerciseCount_zero(weekday) ==
  [id |-> weekday.id, userId |-> weekday.userId, order |-> weekday.order,
   exerciseCount |-> 0]

WithExerciseCount(weekday) ==
  [id |-> weekday.id, userId |-> weekday.userId, order |-> weekday.order,
   exerciseCount |-> Cardinality(ListedWorkoutExercises(weekday.id))]

getUserWeekdays_start(p, userId) ==
  /\ CallFree(p)
  /\ calls' = [calls EXCEPT ![p] = NewCall("getUserWeekdays", "listDocuments", userId)]
  /\ UNCHANGED <<weekdays, workoutExercises, exerciseSets, nextId>>
  /\ UNCHANGED authVars
  /\ UNCHANGED executeVars
  /\ UNCHANGED listVars
  /\ UNCHANGED screenVars

\* The listing with Query.equal('userId', userId), Query.orderAsc('order').
getUserWeekdays_listDocuments(p) ==
  /\ At(p, "getUserWeekdays", "listDocuments")
  /\ \E resp \in Responses :
       LET f == Logged(calls[p], "listDocuments")
           listed == ByOrder(UserWeekdays(f.arg))
       IN calls' = [calls EXCEPT ![p] =
            IF resp # "ok" THEN Finish([f EXCEPT !.failed = TRUE], "throw")
            ELSE IF listed = <<>> THEN Finish([f EXCEPT !.out = <<>>], "weekdays")
            ELSE [f EXCEPT !.pc = "countDocuments", !.todo = listed, !.out = <<>>]]
  /\ UNCHANGED <<weekdays, workoutExercises, exerciseSets, nextId>>
  /\ UNCHANGED authVars
  /\ UNCHANGED executeVars
  /\ UNCHANGED listVars
  /\ UNCHANGED screenVars

\* The count query of the next listed weekday; its failure is rethrown.
getUserWeekdays_countDocuments(p) ==
  /\ At(p, "getUserWeekdays", "countDocuments")
  /\ \E resp \in Responses :
       LET f == Logged(calls[p], "countDocuments")
           g == [f EXCEPT !.todo = Tail(f.todo),
                          !.out = Append(f.out, WithExerciseCount(Head(f.todo)))]
       IN calls' = [calls EXCEPT ![p] =
            IF resp # "ok" THEN Finish([f EXCEPT !.failed = TRUE], "throw")
            ELSE IF g.todo = <<>> THEN Finish(g, "weekdays")
            ELSE g]
  /\ UNCHANGED <<weekdays, workoutExercises, exerciseSets, nextId>>
  /\ UNCHANGED authVars
  /\ UNCHANGED executeVars
  /\ UNCHANGED listVars
  /\ UNCHANGED screenVars

\* ------------------------------------------- a store to read from
\* The longest run of weekdays one createInitialWeekdays left behind.
MaxBatchPrefix == 2
\* The most workout exercises stored.
MaxStored == 2

\* The weekdays after a createInitialWeekdays for u1 that stopped after a
\* records, one for u2 that stopped after b, and a second one for u1
\* (ensureWeekdaysExist found fewer than seven) that stopped after c.
StoredWeekdays(a, b, c) ==
  {[id |-> k, userId |-> "u1", order |-> k] : k \in 1..a} \cup
  {[id |-> a + k, userId |-> "u2", order |-> k] : k \in 1..b} \cup
  {[id |-> a + b + k, userId |-> "u1", order |-> k] : k \in 1..c}

\* The workout exercises after addExerciseToWeekday(wd[1], ...), ...
StoredWorkoutExercises(wd) ==
  {[id |-> k, weekdayId |-> wd[k],
    exerciseId |-> IF k % 2 = 1 THEN "e1" ELSE "e2"] : k \in DOMAIN wd}

\* The sets after m addSetToExercise calls for the first workout exercise.
StoredSets(m) ==
  {[id |-> k, workoutExerciseId |-> 1, setNumber |-> k] : k \in 1..m}

InitRead ==
  /\ sessions = 1
  /\ current = TRUE
  /\ isLoggedIn = TRUE
  /\ isLoading = FALSE
  /\ build = [nav |-> "app", svc |-> "app"]
  /\ frame = Idle
  /\ ScreenInit
  /\ \E a \in 0..MaxBatchPrefix, b \in 0..MaxBatchPrefix, c \in 0..MaxBatchPrefix :
     \E n \in 0..MaxStored : \E wd \in [1..n -> CalledWeekdays] :
     \E m \in 0..(IF n = 0 THEN 0 ELSE MaxStored) :
       /\ weekdays = StoredWeekdays(a, b, c)
       /\ workoutExercises = StoredWorkoutExercises(wd)
       /\ exerciseSets = StoredSets(m)
       /\ nextId = [weekday |-> a + b + c + 1, workoutExercise |-> n + 1,
                    exerciseSet |-> m + 1]
  /\ calls = [p \in Slots |-> CallIdle]

NextRead ==
  \E p \in Caller :
    \/ \E userId \in Users : getUserWeekdays_start(p, userId)
    \/ getUserWeekdays_listDocuments(p)
    \/ getUserWeekdays_countDocuments(p)
    \/ \E weekdayId \in CalledWeekdays : getWeekdayExercises_start(p, weekdayId)
    \/ getWeekdayExercises_listDocuments(p)
    \/ getWeekdayExercises_getDocument(p)
    \/ getWeekdayExercises_listSets(p)

SpecRead == InitRead /\ [][NextRead]_vars

\* --------------------------------------------------------- claim C22
\* C22: a getUserWeekdays(userId) that returns gives the weekdays of that
\* user and of nobody else, in ascending order, each with exerciseCount
\* equal to the number of workout exercises whose weekdayId is its id; when
\* the listing or any count query failed the call throws and returns no
\* list.
C22_UserWeekdaysWithCounts ==
  \A p \in Slots :
    (calls[p].op = "getUserWeekdays" /\ calls[p].pc = "done") =>
      LET f == calls[p] IN
      /\ f.ret = (IF f.failed THEN "throw" ELSE "weekdays")
      /\ f.ret = "weekdays" =>
           /\ \A i \in DOMAIN f.out : f.out[i].userId = f.arg
           /\ {d.id : d \in UserWeekdays(f.arg)} = {f.out[i].id : i \in DOMAIN f.out}
           /\ Len(f.out) = Cardinality(UserWeekdays(f.arg))
           /\ \A i, j \in DOMAIN f.out : i < j => f.out[i].order <= f.out[j].order
           /\ \A i \in DOMAIN f.out :
                f.out[i].exerciseCount =
                  Cardinality({w \in workoutExercises : w.weekdayId = f.out[i].id})

\* Two batches of u1 beside a weekday of u2, the weekdays with different
\* counts: the list comes back by order, not by id.
C22_Witness ==
  \E p \in Slots :
    /\ calls[p].op = "getUserWeekdays" /\ calls[p].ret = "weekdays"
    /\ calls[p].arg = "u1"
    /\ \E d \in weekdays : d.userId = "u2"
    /\ Len(calls[p].out) = 4
    /\ calls[p].out[2].id > calls[p].out[3].id
    /\ \E i, j \in DOMAIN calls[p].out :
         calls[p].out[i].exerciseCount = 0 /\ calls[p].out[j].exerciseCount = 2

\* The second count query failed after the first answered.
C22_Witness_throw ==
  \E p \in Slots :
    /\ calls[p].op = "getUserWeekdays" /\ calls[p].ret = "throw"
    /\ Len(calls[p].log) = 3

\* --------------------------------------------------------- claim C23
\* C23: a getWeekdayExercises(weekdayId) whose listing answered returns one
\* entry per workout exercise of the weekday, in listing order; the entry of
\* a document whose exercise details or sets could not be fetched is the
\* placeholder ('Unknown Exercise', no sets), the others carry the
\* exercise and the sets by setNumber; such a failure never fails the call.
C23_OneEntryPerWorkoutExercise ==
  \A p \in Slots :
    (calls[p].op = "getWeekdayExercises" /\ calls[p].pc = "done") =>
      LET f == calls[p]
          listed == InListingOrder({w \in workoutExercises : w.weekdayId = f.arg})
      IN /\ f.ret = (IF f.failed THEN "throw" ELSE "returned")
         /\ f.failed => Len(f.log) = 1
         /\ f.ret = "returned" =>
              /\ Len(f.out) = Len(listed)
              /\ \A i \in DOMAIN f.out :
                   /\ f.out[i].id = listed[i].id
                   /\ IF listed[i].id \in f.caught
                      THEN /\ f.out[i].exerciseName = "Unknown Exercise"
                           /\ f.out[i].sets = <<>>
                      ELSE /\ f.out[i].exerciseName = listed[i].exerciseId
                           /\ f.out[i].sets = BySetNumber(SetsOf(listed[i].id))

\* Two workout exercises of the weekday: the first one's sets could not be
\* listed although it has sets, the second one is returned in full.
C23_Witness ==
  \E p \in Slots :
    /\ calls[p].op = "getWeekdayExercises" /\ calls[p].ret = "returned"
    /\ Len(calls[p].out) = 2
    /\ calls[p].caught = {1} /\ SetsOf(1) # {}
    /\ calls[p].out[1] = [id |-> 1, exerciseName |-> "Unknown Exercise", sets |-> <<>>]
    /\ calls[p].out[2].exerciseName = "e2"

\* --------------------------------------------------------- claim C24
\* The startup lookup of checkAuthStatus has not been answered yet.
LookupPending == frame.op = "checkAuthStatus" /\ frame.pc = "get"

\* C24: the step in which the lookup of checkAuthStatus is answered, with a
\* user, with null or with an error, ends checkAuthStatus with isLoading
\* false; the loading screen is shown only while the lookup is unanswered
\* and never comes back.
C24_LookupEndsLoading ==
  /\ [](isLoading => LookupPending)
  /\ [][((LookupPending /\ frame' # frame) =>
            (/\ ~isLoading'
             /\ frame'.op = "checkAuthStatus" /\ frame'.pc = "done"
             /\ frame'.ret = (IF isLoggedIn' THEN "true" ELSE "false")))
         /\ (~isLoading => ~isLoading')]_vars

\* The lookup threw although a session exists (account.get failed in the
\* part_010 navigator): checkAuthStatus ended, not loading, logged out.
C24_Witness ==
  /\ build.nav = "p10" /\ current
  /\ frame.op = "checkAuthStatus" /\ frame.pc = "done" /\ frame.ret = "false"
  /\ ~isLoading /\ ~isLoggedIn

\* With every awaited call answered, the loading screen goes away.
C24_LoadingEnds == isLoading ~> ~isLoading

\* ================================================ WeekdayDetailsScreen
\* route.params.weekday.$id of the mounted screen: the first weekday.
ShownWeekday == CHOOSE d \in CalledWeekdays : \A e \in CalledWeekdays : d <= e

\* No handler of the screen uses the slot.
HandlerFree(p) == handlers[p].op = "idle" /\ CallFree(p)

\* The service call the handler in slot p awaits has settled.
Settled(p, ops) == handlers[p].op \in ops /\ calls[p].pc = "done"

\* No handler is about to continue: a continuation runs before the next
\* press or focus event is handled.
NoneSettled == \A q \in Slots : ~Settled(q, {handlers[q].op} \ {"idle"})

\* What getWeekdayExercises returns when all its calls succeed.
FullEntry(w) ==
  [id |-> w.id, exerciseName |-> w.exerciseId, sets |-> BySetNumber(SetsOf(w.id))]

FetchedExercises(weekdayId) ==
  LET listed == InListingOrder(ListedWorkoutExercises(weekdayId))
  IN [i \in DOMAIN listed |-> FullEntry(listed[i])]

\* exercises.filter(ex => ex.$id !== exerciseId)
RECURSIVE FilteredOut(_, _)
FilteredOut(list, exerciseId) ==
  IF list = <<>> THEN <<>>
  ELSE IF Head(list).id = exerciseId THEN FilteredOut(Tail(list), exerciseId)
  ELSE <<Head(list)>> \o FilteredOut(Tail(list), exerciseId)

\* refreshExercises, called by the focus effect each time the screen
\* comes into focus: setLoading(true), then the fetch.
refreshExercises_start(p) ==
  /\ HandlerFree(p) /\ NoneSettled
  /\ route.screen = "WeekdayDetails"
  /\ weekdayDetails' = [weekdayDetails EXCEPT !.loading = TRUE]
  /\ handlers' = [handlers EXCEPT ![p] = [HandlerIdle EXCEPT !.op = "refreshExercises"]]
  /\ calls' = [calls EXCEPT ![p] =
       NewCall("getWeekdayExercises", "listDocuments", ShownWeekday)]
  /\ lastFetch' = [lastFetch EXCEPT !.workoutExercises = workoutExercises]
  /\ UNCHANGED <<weekdays, workoutExercises, exerciseSets, nextId>>
  /\ UNCHANGED exercisesScreen
  /\ UNCHANGED authVars
  /\ UNCHANGED executeVars
  /\ UNCHANGED screenVars

\* fetchExercises (mount effect) and refreshExercises after their await:
\* setExercises(exercisesData) unless the call threw, setLoading(false).
fetchExercises_resume(p) ==
  /\ Settled(p, {"fetchExercises", "refreshExercises"})
  /\ weekdayDetails' =
       [exercises |-> IF calls[p].ret = "returned" THEN calls[p].out
                      ELSE weekdayDetails.exercises,
        loading |-> FALSE]
  /\ handlers' = [handlers EXCEPT ![p] = HandlerIdle]
  /\ calls' = [calls EXCEPT ![p] = CallIdle]
  /\ lastFetch' = [lastFetch EXCEPT !.failed =
       @ \/ calls[p].ret # "returned" \/ calls[p].caught # {}]
  /\ UNCHANGED <<weekdays, workoutExercises, exerciseSets, nextId>>
  /\ UNCHANGED exercisesScreen
  /\ UNCHANGED authVars
  /\ UNCHANGED executeVars
  /\ UNCHANGED screenVars

\* handleDeleteExercise(exerciseId), pressed on a displayed row: the
\* handler closes over the `exercises` of the render it belongs to.
handleDeleteExercise_start(p, exerciseId) ==
  /\ HandlerFree(p) /\ NoneSettled
  /\ route.screen = "WeekdayDetails"
  /\ ~weekdayDetails.loading
  /\ \E i \in DOMAIN weekdayDetails.exercises :
       weekdayDetails.exercises[i].id = exerciseId
  /\ handlers' = [handlers EXCEPT ![p] =
       [op |-> "handleDeleteExercise", arg |-> exerciseId,
        closure |-> weekdayDetails.exercises]]
  /\ calls' = [calls EXCEPT ![p] =
       NewCall("deleteExerciseFromWeekday", "listDocuments", exerciseId)]
  /\ UNCHANGED <<weekdays, workoutExercises, exerciseSets, nextId>>
  /\ UNCHANGED <<weekdayDetails, exercisesScreen, lastFetch>>
  /\ UNCHANGED authVars
  /\ UNCHANGED executeVars
  /\ UNCHANGED screenVars

\* handleDeleteExercise after its await: setExercises(exercises.filter(...))
\* with the captured list; the catch only alerts.
handleDeleteExercise_resume(p) ==
  /\ Settled(p, {"handleDeleteExercise"})
  /\ weekdayDetails' =
       IF calls[p].ret = "true"
       THEN [weekdayDetails EXCEPT !.exercises =
               FilteredOut(handlers[p].closure, handlers[p].arg)]
       ELSE weekdayDetails
  /\ handlers' = [handlers EXCEPT ![p] = HandlerIdle]
  /\ calls' = [calls EXCEPT ![p] = CallIdle]
  /\ UNCHANGED <<weekdays, workoutExercises, exerciseSets, nextId>>
  /\ UNCHANGED <<exercisesScreen, lastFetch>>
  /\ UNCHANGED authVars
  /\ UNCHANGED executeVars
  /\ UNCHANGED screenVars

\* The store behind a mounted screen: MaxStored workout exercises of the
\* shown weekday, the first with up to one set.
DetailsStore ==
  /\ weekdays = SeedWeekdays
  /\ workoutExercises = StoredWorkoutExercises([k \in 1..MaxStored |-> ShownWeekday])
  /\ \E m \in 0..1 :
       /\ exerciseSets = StoredSets(m)
       /\ nextId = [weekday |-> WEEKDAYS_PER_USER + 1,
                    workoutExercise |-> MaxStored + 1, exerciseSet |-> m + 1]

DetailsScreens ==
  /\ accounts = {"u1"}
  /\ sessionUser = "u1"
  /\ batches = 1
  /\ user = "u1"
  /\ loading = FALSE
  /\ shown = Fetched([i \in 1..WEEKDAYS_PER_USER |-> [id |-> i, exerciseCount |-> 0]])
  /\ route = [screen |-> "WeekdayDetails", weekdayId |-> ShownWeekday]
  /\ exercises = NotFetched
  /\ selectedExercise = "none"
  /\ rows = InitialRows
  /\ submitting = FALSE
  /\ ExecuteInit
  /\ exercisesScreen = [exercises |-> <<>>, loading |-> TRUE, searchText |-> <<>>,
                        selectedBodyPart |-> "All Body Part",
                        selectedCategory |-> "All Category"]

\* The screen after its fetches answered in full, nothing in flight.
InitDeletes ==
  /\ sessions = 1
  /\ current = TRUE
  /\ isLoggedIn = TRUE
  /\ isLoading = FALSE
  /\ build = [nav |-> "app", svc |-> "app"]
  /\ frame = Idle
  /\ DetailsStore
  /\ DetailsScreens
  /\ calls = [p \in Slots |-> CallIdle]
  /\ handlers = [p \in Slots |-> HandlerIdle]
  /\ weekdayDetails = [exercises |-> FetchedExercises(ShownWeekday), loading |-> FALSE]
  /\ lastFetch = [workoutExercises |-> workoutExercises, failed |-> FALSE]

NextDeletes ==
  \E p \in Slots :
    \/ \E exerciseId \in 1..MaxStored : handleDeleteExercise_start(p, exerciseId)
    \/ deleteExerciseFromWeekday_listDocuments(p)
    \/ deleteExerciseFromWeekday_deleteSet(p)
    \/ deleteExerciseFromWeekday_deleteParent(p)
    \/ handleDeleteExercise_resume(p)

SpecDeletes == InitDeletes /\ [][NextDeletes]_vars

\* The screen right after mount: the mount effect's fetchExercises and the
\* focus effect's refreshExercises have both started.
InitDetails ==
  /\ sessions = 1
  /\ current = TRUE
  /\ isLoggedIn = TRUE
  /\ isLoading = FALSE
  /\ build = [nav |-> "app", svc |-> "app"]
  /\ frame = Idle
  /\ DetailsStore
  /\ DetailsScreens
  /\ calls = [p \in Slots |->
                NewCall("getWeekdayExercises", "listDocuments", ShownWeekday)]
  /\ handlers = [p \in Slots |->
       [HandlerIdle EXCEPT !.op = IF p = "a" THEN "fetchExercises"
                                  ELSE "refreshExercises"]]
  /\ weekdayDetails = [exercises |-> <<>>, loading |-> TRUE]
  /\ lastFetch = [workoutExercises |-> workoutExercises, failed |-> FALSE]

NextDetails ==
  \E p \in Slots :
    \/ getWeekdayExercises_listDocuments(p)
    \/ getWeekdayExercises_getDocument(p)
    \/ getWeekdayExercises_listSets(p)
    \/ fetchExercises_resume(p)
    \/ refreshExercises_start(p)
    \/ \E exerciseId \in 1..MaxStored : handleDeleteExercise_start(p, exerciseId)
    \/ deleteExerciseFromWeekday_listDocuments(p)
    \/ deleteExerciseFromWeekday_deleteSet(p)
    \/ deleteExerciseFromWeekday_deleteParent(p)
    \/ handleDeleteExercise_resume(p)

SpecDetails == InitDetails /\ [][NextDetails]_vars

\* --------------------------------------------------------- claim C25
DisplayedIds == {weekdayDetails.exercises[i].id : i \in DOMAIN weekdayDetails.exercises}

NoDeleteInFlight == \A p \in Slots : handlers[p].op # "handleDeleteExercise"

\* C25: when no handleDeleteExercise call is in flight, the displayed list
\* holds no exercise that was deleted remotely (also after two deletions
\* that overlapped), and every exercise that is still stored, its deletion
\* having failed or never been asked, is still displayed.
C25_DeletedExercisesLeaveList ==
  NoDeleteInFlight =>
    /\ DisplayedIds \subseteq WorkoutExerciseIds
    /\ WorkoutExerciseIds \subseteq DisplayedIds

\* --------------------------------------------------------- claim C26
NoFetchInFlight ==
  \A p \in Slots : handlers[p].op \notin {"fetchExercises", "refreshExercises"}

\* C26: when no fetch is in flight, no fetch failed and the store has not
\* been written since the last fetch started, the displayed exercises are
\* the stored workout exercises of the weekday, in listing order.
C26_DisplayedIsStored ==
  (/\ NoFetchInFlight
   /\ ~lastFetch.failed
   /\ lastFetch.workoutExercises = workoutExercises) =>
    [i \in DOMAIN weekdayDetails.exercises |-> weekdayDetails.exercises[i].id]
      = [i \in DOMAIN FetchedExercises(ShownWeekday) |->
           FetchedExercises(ShownWeekday)[i].id]

\* ================================================ getFilteredExercises
\* Strings that are searched or sorted are sequences of these characters,
\* in alphabetical order.
Chars == <<" ", "p", "q">>

\* The longest search text typed.
MaxLen == 2

Texts == UNION {[1..n -> {Chars[i] : i \in DOMAIN Chars}] : n \in 0..MaxLen}

\* null, as an argument.
NullValue == "<null>"

\* String.prototype.trim
RECURSIVE TrimStart(_)
TrimStart(t) ==
  IF t # <<>> /\ Head(t) = " " THEN TrimStart(Tail(t)) ELSE t

RECURSIVE TrimEnd(_)
TrimEnd(t) ==
  IF t # <<>> /\ t[Len(t)] = " " THEN TrimEnd(SubSeq(t, 1, Len(t) - 1)) ELSE t

Trim_none(t) == t

Trim(t) == TrimEnd(TrimStart(t))

\* if (bodyPart), if (category): null and '' are falsy.
Truthy(value) == value \notin {NullValue, ""}

\* The `queries` array getFilteredExercises passes to listDocuments.
Queries(bodyPart, category, searchText, sortField, sortOrder) ==
  (IF Truthy(bodyPart)
   THEN <<[method |-> "equal", attribute |-> "bodyPart", value |-> bodyPart,
           text |-> <<>>]>>
   ELSE <<>>) \o
  (IF Truthy(category)
   THEN <<[method |-> "equal", attribute |-> "category", value |-> category,
           text |-> <<>>]>>
   ELSE <<>>) \o
  (IF searchText # <<>> /\ Trim(searchText) # <<>>
   THEN <<[method |-> "search", attribute |-> "name", value |-> "",
           text |-> searchText]>>
   ELSE <<>>) \o
  <<[method |-> IF sortOrder = "asc" THEN "orderAsc" ELSE "orderDesc",
     attribute |-> sortField, value |-> "", text |-> <<>>]>>

\* The Exercises collection; the app only reads it.
Library ==
  {[id |-> "e1", name |-> <<"p">>, bodyPart |-> "Chest", category |-> "Barbell",
    createdAt |-> 2],
   [id |-> "e2", name |-> <<"q", "p">>, bodyPart |-> "Back", category |-> "Barbell",
    createdAt |-> 1],
   [id |-> "e3", name |-> <<"q">>, bodyPart |-> "Chest", category |-> "Cable",
    createdAt |-> 3]}

CharRank(c) == CHOOSE i \in DOMAIN Chars : Chars[i] = c

\* s sorts before t, or equals it.
RECURSIVE TextLeq(_, _)
TextLeq(s, t) ==
  IF s = <<>> THEN TRUE
  ELSE IF t = <<>> THEN FALSE
  ELSE IF Head(s) # Head(t) THEN CharRank(Head(s)) < CharRank(Head(t))
  ELSE TextLeq(Tail(s), Tail(t))

\* Full-text search on the name: the trimmed text occurs in it.
Contains(name, text) ==
  \E i \in 1..(Len(name) + 1) :
    /\ i + Len(text) - 1 <= Len(name)
    /\ SubSeq(name, i, i + Len(text) - 1) = text

Satisfies(doc, q) ==
  IF q.method = "equal"
  THEN (IF q.attribute = "bodyPart" THEN doc.bodyPart ELSE doc.category) = q.value
  ELSE IF q.method = "search" THEN Contains(doc.name, Trim(q.text))
  ELSE TRUE

\* doc comes before other under the sort clause q.
Before(doc, other, q) ==
  LET leq(x, y) == IF q.attribute = "name" THEN TextLeq(x.name, y.name)
                   ELSE x.createdAt <= y.createdAt
  IN IF q.method = "orderAsc" THEN leq(doc, other) ELSE leq(other, doc)

RECURSIVE SortedBy(_, _)
SortedBy(docs, q) ==
  IF docs = {} THEN <<>>
  ELSE LET d == CHOOSE x \in docs : \A y \in docs : Before(x, y, q)
       IN <<d.id>> \o SortedBy(docs \ {d}, q)

\* response.documents of listDocuments(EXERCISES, queries), as ids.
Documents(queries) ==
  SortedBy({doc \in Library :
              \A i \in DOMAIN queries : Satisfies(doc, queries[i])},
           queries[Len(queries)])

\* getFilteredExercises up to its await: the queries are built.
getFilteredExercises_called(args) ==
  [NewCall("getFilteredExercises", "listDocuments", args) EXCEPT
     !.todo = Queries(args.bodyPart, args.category, args.searchText,
                      args.sortField, args.sortOrder)]

getFilteredExercises_start(p) ==
  /\ At(p, "getFilteredExercises", "call")
  /\ calls' = [calls EXCEPT ![p] = getFilteredExercises_called(calls[p].arg)]
  /\ UNCHANGED <<weekdays, workoutExercises, exerciseSets, nextId>>
  /\ UNCHANGED listVars
  /\ UNCHANGED authVars
  /\ UNCHANGED executeVars
  /\ UNCHANGED screenVars

getFilteredExercises_listDocuments(p) ==
  /\ At(p, "getFilteredExercises", "listDocuments")
  /\ \E resp \in Responses :
       calls' = [calls EXCEPT ![p] =
         IF resp = "ok"
         THEN Finish([calls[p] EXCEPT !.out = Documents(calls[p].todo)], "documents")
         ELSE Finish([calls[p] EXCEPT !.failed = TRUE], "throw")]
  /\ UNCHANGED <<weekdays, workoutExercises, exerciseSets, nextId>>
  /\ UNCHANGED listVars
  /\ UNCHANGED authVars
  /\ UNCHANGED executeVars
  /\ UNCHANGED screenVars

\* The arguments tried.
BodyParts == {NullValue, "", "Chest"}
Categories == {NullValue, "", "Barbell"}
SortFields == {"name", "$createdAt"}
SortOrders == {"asc", "desc", "ASC"}

InitFilter ==
  /\ sessions = 1
  /\ current = TRUE
  /\ isLoggedIn = TRUE
  /\ isLoading = FALSE
  /\ build = [nav |-> "app", svc |-> "app"]
  /\ frame = Idle
  /\ weekdays = SeedWeekdays
  /\ workoutExercises = {}
  /\ exerciseSets = {}
  /\ nextId = [weekday |-> WEEKDAYS_PER_USER + 1, workoutExercise |-> 1,
               exerciseSet |-> 1]
  /\ ScreenInit
  /\ \E bodyPart \in BodyParts, category \in Categories, searchText \in Texts,
        sortField \in SortFields, sortOrder \in SortOrders :
       calls = [p \in Slots |->
         IF p = "a"
         THEN NewCall("getFilteredExercises", "call",
                      [bodyPart |-> bodyPart, category |-> category,
                       searchText |-> searchText, sortField |-> sortField,
                       sortOrder |-> sortOrder])
         ELSE CallIdle]

NextFilter ==
  \E p \in Caller :
    \/ getFilteredExercises_start(p)
    \/ getFilteredExercises_listDocuments(p)

SpecFilter == InitFilter /\ [][NextFilter]_vars

\* --------------------------------------------------------- claim C28
\* The clauses of the built query with the given method and attribute.
Clauses(f, methods, attribute) ==
  {i \in DOMAIN f.todo :
     f.todo[i].method \in methods /\ f.todo[i].attribute = attribute}

\* C28: the query getFilteredExercises builds has a body-part equality
\* clause exactly when bodyPart is non-empty, a category equality clause
\* exactly when category is non-empty, a name search clause exactly when
\* searchText is not blank, and exactly one sort clause, on sortField,
\* ascending exactly when sortOrder is 'asc' and descending otherwise.
C28_QueryClauses ==
  \A p \in Slots :
    (calls[p].op = "getFilteredExercises" /\ calls[p].pc # "call") =>
      LET f == calls[p]
          args == f.arg
          blank == \A i \in DOMAIN args.searchText : args.searchText[i] = " "
          sorts == {i \in DOMAIN f.todo :
                      f.todo[i].method \in {"orderAsc", "orderDesc"}}
      IN /\ Cardinality(Clauses(f, {"equal"}, "bodyPart")) =
              (IF args.bodyPart \in {NullValue, ""} THEN 0 ELSE 1)
         /\ \A i \in Clauses(f, {"equal"}, "bodyPart") : f.todo[i].value = args.bodyPart
         /\ Cardinality(Clauses(f, {"equal"}, "category")) =
              (IF args.category \in {NullValue, ""} THEN 0 ELSE 1)
         /\ \A i \in Clauses(f, {"equal"}, "category") : f.todo[i].value = args.category
         /\ Cardinality(Clauses(f, {"search"}, "name")) = (IF blank THEN 0 ELSE 1)
         /\ \A i \in Clauses(f, {"search"}, "name") : f.todo[i].text = args.searchText
         /\ Cardinality(sorts) = 1
         /\ \A i \in sorts :
              /\ f.todo[i].attribute = args.sortField
              /\ f.todo[i].method = "orderAsc" <=> args.sortOrder = "asc"
         /\ Len(f.todo) =
              Cardinality(Clauses(f, {"equal"}, "bodyPart")) +
              Cardinality(Clauses(f, {"equal"}, "category")) +
              Cardinality(Clauses(f, {"search"}, "name")) + 1

\* A body part, no category, a search text with spaces around a letter and
\* a sort order that is not 'asc': three clauses, the last one descending.
C28_Witness ==
  \E p \in Slots :
    /\ calls[p].op = "getFilteredExercises" /\ calls[p].pc = "done"
    /\ calls[p].arg.bodyPart = "Chest" /\ calls[p].arg.category = ""
    /\ calls[p].arg.searchText = <<" ", "p">>
    /\ calls[p].arg.sortOrder = "ASC"
    /\ Len(calls[p].todo) = 3
    /\ calls[p].todo[3].method = "orderDesc"

\* A search text of spaces only adds no clause.
C28_Witness_blank ==
  \E p \in Slots :
    /\ calls[p].op = "getFilteredExercises" /\ calls[p].pc = "done"
    /\ calls[p].arg.searchText = <<" ", " ">>
    /\ Clauses(calls[p], {"search"}, "name") = {}

\* ===================================================== ExercisesScreen
\* The arguments fetchExercises passes for the given screen state.
FilterArgs(state) ==
  [bodyPart |-> IF state.selectedBodyPart = "All Body Part" THEN NullValue
                ELSE state.selectedBodyPart,
   category |-> IF state.selectedCategory = "All Category" THEN NullValue
                ELSE state.selectedCategory,
   searchText |-> state.searchText,
   sortField |-> "name", sortOrder |-> "asc"]

\* The effect on [selectedBodyPart, selectedCategory, searchText]: after
\* the render with the changed state, fetchExercises runs with that state:
\* setLoading(true), then getFilteredExercises up to its await.
Exercises_fetchExercises(p, state) ==
  /\ HandlerFree(p) /\ NoneSettled
  /\ exercisesScreen' = [state EXCEPT !.loading = TRUE]
  /\ handlers' = [handlers EXCEPT ![p] =
       [HandlerIdle EXCEPT !.op = "Exercises.fetchExercises"]]
  /\ calls' = [calls EXCEPT ![p] = getFilteredExercises_called(FilterArgs(state))]
  /\ UNCHANGED <<weekdays, workoutExercises, exerciseSets, nextId>>
  /\ UNCHANGED <<weekdayDetails, lastFetch>>
  /\ UNCHANGED authVars
  /\ UNCHANGED executeVars
  /\ UNCHANGED screenVars

selectBodyPart(p, bodyPart) ==
  /\ bodyPart # exercisesScreen.selectedBodyPart
  /\ Exercises_fetchExercises(p, [exercisesScreen EXCEPT !.selectedBodyPart = bodyPart])

selectCategory(p, category) ==
  /\ category # exercisesScreen.selectedCategory
  /\ Exercises_fetchExercises(p, [exercisesScreen EXCEPT !.selectedCategory = category])

\* onChangeText of the search box
setSearchText(p, text) ==
  /\ text # exercisesScreen.searchText
  /\ Exercises_fetchExercises(p, [exercisesScreen EXCEPT !.searchText = text])

clearFilters(p) ==
  /\ FilterArgs(exercisesScreen).bodyPart # NullValue
       \/ FilterArgs(exercisesScreen).category # NullValue
       \/ exercisesScreen.searchText # <<>>
  /\ Exercises_fetchExercises(p, [exercisesScreen EXCEPT
       !.selectedBodyPart = "All Body Part",
       !.selectedCategory = "All Category",
       !.searchText = <<>>])

\* fetchExercises after its await: setExercises(data) unless the call
\* threw, setLoading(false).
Exercises_fetchExercises_resume(p) ==
  /\ Settled(p, {"Exercises.fetchExercises"})
  /\ exercisesScreen' = [exercisesScreen EXCEPT
       !.exercises = IF calls[p].ret = "documents" THEN calls[p].out ELSE @,
       !.loading = FALSE]
  /\ handlers' = [handlers EXCEPT ![p] = HandlerIdle]
  /\ calls' = [calls EXCEPT ![p] = CallIdle]
  /\ lastFetch' = [lastFetch EXCEPT !.failed = @ \/ calls[p].ret # "documents"]
  /\ UNCHANGED <<weekdays, workoutExercises, exerciseSets, nextId>>
  /\ UNCHANGED weekdayDetails
  /\ UNCHANGED authVars
  /\ UNCHANGED executeVars
  /\ UNCHANGED screenVars

\* What the user selects and types.
SelectedBodyParts == {"All Body Part", "Chest", "Back"}
SelectedCategories == {"All Category", "Barbell"}
TypedTexts == {<<>>, <<"p">>}

\* The screen right after mount: the effect has started the first fetch.
InitExercises ==
  /\ sessions = 1
  /\ current = TRUE
  /\ isLoggedIn = TRUE
  /\ isLoading = FALSE
  /\ build = [nav |-> "app", svc |-> "app"]
  /\ frame = Idle
  /\ weekdays = SeedWeekdays
  /\ workoutExercises = {}
  /\ exerciseSets = {}
  /\ nextId = [weekday |-> WEEKDAYS_PER_USER + 1, workoutExercise |-> 1,
               exerciseSet |-> 1]
  /\ accounts = {"u1"}
  /\ sessionUser = "u1"
  /\ batches = 1
  /\ user = "none"
  /\ loading = TRUE
  /\ shown = <<>>
  /\ route = WorkoutHome
  /\ exercises = NotFetched
  /\ selectedExercise = "none"
  /\ rows = InitialRows
  /\ submitting = FALSE
  /\ ExecuteInit
  /\ weekdayDetails = [exercises |-> <<>>, loading |-> TRUE]
  /\ lastFetch = [workoutExercises |-> {}, failed |-> FALSE]
  /\ exercisesScreen = [exercises |-> <<>>, loading |-> TRUE, searchText |-> <<>>,
                        selectedBodyPart |-> "All Body Part",
                        selectedCategory |-> "All Category"]
  /\ handlers = [p \in Slots |->
       IF p = "a" THEN [HandlerIdle EXCEPT !.op = "Exercises.fetchExercises"]
       ELSE HandlerIdle]
  /\ calls = [p \in Slots |->
       IF p = "a" THEN getFilteredExercises_called(FilterArgs(exercisesScreen))
       ELSE CallIdle]

NextExercises ==
  \E p \in Slots :
    \/ \E bodyPart \in SelectedBodyParts : selectBodyPart(p, bodyPart)
    \/ \E category \in SelectedCategories : selectCategory(p, category)
    \/ \E text \in TypedTexts : setSearchText(p, text)
    \/ clearFilters(p)
    \/ getFilteredExercises_listDocuments(p)
    \/ Exercises_fetchExercises_resume(p)

SpecExercises == InitExercises /\ [][NextExercises]_vars

\* --------------------------------------------------------- claim C27
\* C27: when no filter request is in flight (and none has failed), the
\* displayed list is the result of the query for the body part, category
\* and search text now selected.
C27_DisplayedMatchesFilters ==
  (/\ \A p \in Slots : handlers[p].op # "Exercises.fetchExercises"
   /\ ~lastFetch.failed) =>
    LET args == FilterArgs(exercisesScreen)
    IN exercisesScreen.exercises =
         Documents(Queries(args.bodyPart, args.category, args.searchText,
                           args.sortField, args.sortOrder))

C29_Witness_false ==
  /\ build.nav = "app"
  /\ frame.op = "handleLogin" /\ frame.pc = "done"
  /\ frame.credsOk /\ frame.ret = "false" /\ ~isLoggedIn

=============================================================================
